---- MODULE Spec2Model ----
(***************************************************************************)
(* Model of the deep-research plugin's parallel multi-source pipeline:     *)
(* the parallel execution engine (parallelServices / safeCall /            *)
(* batchProcess of utils/parallel.ts) and the tool executors built on it.  *)
(***************************************************************************)
EXTENDS Integers, Sequences, FiniteSets, TLC

VARIABLES
  ppc,      \* [Inst -> position of one parallelServices invocation]
  fn,       \* [Inst -> [Providers -> the promise returned by calls.<p>()]]
  timer,    \* [Inst -> [Providers -> state of safeCall's setTimeout]]
  slot,     \* [Inst -> [Providers -> the promise safeCall(..).catch(..)]]
  errors,   \* [Inst -> the errors array of the invocation]
  ret,      \* [Inst -> the slots of the returned ParallelResults, or NoRet]
  bpc,      \* position of one batchProcess invocation
  bItems,   \* batchProcess: items
  bSize,    \* batchProcess: batchSize
  bI,       \* batchProcess: the loop variable i (0-based)
  bCalls,   \* batchProcess: the promise processor(item) of every item
  bResults, \* batchProcess: results
  bErrors,  \* batchProcess: errors
  tpc,      \* position of the tool executor
  tool,     \* the tool invoked and its parameters
  req,      \* [site -> the provider request issued there]
  loc,      \* locals of the executor computed before the engine call
  allErrors,\* the executor's allErrors array
  report,   \* the text the executor returned (<<>> before it returns)
  lib       \* a direct call of a function of utils/: its name, arguments,
            \* progress and returned value

engineVars == <<ppc, fn, timer, slot, errors, ret>>
batchVars == <<bpc, bItems, bSize, bI, bCalls, bResults, bErrors>>
toolVars == <<tpc, tool, req, loc, allErrors, report>>
vars == <<engineVars, batchVars, toolVars, lib>>

(***************************************************************************)
(* Bounds of the model.                                                    *)
(***************************************************************************)
MaxInst == 2          \* engine invocations 0..MaxInst may run concurrently
MaxItems == 4         \* batchProcess: longest item list
MaxBatchSize == 3     \* batchProcess: largest batch size
MaxUrls == 2          \* scrape_and_extract: longest URL list
MaxResults == 3       \* mergeResults: longest list of results
MaxRanked == 4        \* rankByRelevance: longest list of records
MaxFormatted == 2     \* formatters: longest list of records, largest maxResults
MaxWww == 2           \* normalizeUrl: most leading www. labels of a host
MaxSlashes == 2       \* normalizeUrl: most trailing slashes of a path
MaxCount == 60        \* deep_search: largest |params.numResults|
MaxGiven == 22        \* scrape_and_extract: longest list of given URLs (SpecClamp)
MaxMerged == 22       \* compare_offers: longest ranked list (SpecOffers)
MaxCollected == 3     \* URLs collected by mass_summary in a call of its source list
MaxFaults == 2        \* deep_research: requests that fail or time out in an invocation
MaxAreas == 6         \* deep_research: focus areas given
MaxFieldItems == 3    \* mergeResults: longest list of results (SpecFields)

Inst == 0..MaxInst

(***************************************************************************)
(* utils/parallel.ts: parallelServices and safeCall                        *)
(***************************************************************************)
Providers == {"exa", "firecrawl", "perplexity"}

\* A value that may be null is boxed: null itself, or a value x.
Null == [null |-> TRUE]
Value(x) == [null |-> FALSE, v |-> x]
PendingP == [st |-> "pending", val |-> Null]   \* a promise not yet settled
NoRet == [returned |-> FALSE]

ExaTimeoutMs == 120000
FirecrawlTimeoutMs == 120000
PerplexityTimeoutMs == 180000

TimeoutMsUniform(p) == ExaTimeoutMs
TimeoutMs(p) ==
  CASE p = "exa" -> ExaTimeoutMs
    [] p = "firecrawl" -> FirecrawlTimeoutMs
    [] p = "perplexity" -> PerplexityTimeoutMs

ProviderTag(p) ==
  CASE p = "exa" -> "[Exa]"
    [] p = "firecrawl" -> "[Firecrawl]"
    [] p = "perplexity" -> "[Perplexity]"

\* What a provider call may resolve with, and what it may throw: an Error
\* object (isError) with a message, or any other thrown value.
Values == {Value("v1"), Value("v2")}
Thrown == {[isError |-> TRUE, text |-> "API failed (500)"],
           [isError |-> FALSE, text |-> "boom"]}

\* new Error(`Timeout after ${timeoutMs}ms`)
TimeoutError(timeoutMs) ==
  [isError |-> TRUE, text |-> "Timeout after " \o ToString(timeoutMs) \o "ms"]

\* e instanceof Error ? e.message : String(e)
ErrorText(e) == e.text

\* `[Exa] ${...}` and its two siblings
CatchMsg(p, e) == ProviderTag(p) \o " " \o ErrorText(e)

Settled(i, p) == slot[i][p].st # "pending"

\* await Promise.all([...]): the await throws as soon as one element is
\* rejected, and continues when every element is fulfilled.
JoinRejected(i) == \E p \in Providers : slot[i][p].st = "rejected"
JoinAny(i) == \E p \in Providers : slot[i][p].st = "fulfilled"
JoinReady(i) == \A p \in Providers : slot[i][p].st = "fulfilled"

\* The three safeCall(...) expressions of the array literal are evaluated in
\* one synchronous run: every fn() is called and every timer is armed before
\* any promise reaction can run.
Start(i) ==
  /\ ppc[i] = "idle"
  /\ ppc' = [ppc EXCEPT ![i] = "awaiting"]
  /\ fn' = [fn EXCEPT ![i] = [p \in Providers |-> PendingP]]
  /\ timer' = [timer EXCEPT ![i] = [p \in Providers |-> "armed"]]
  /\ slot' = [slot EXCEPT ![i] = [p \in Providers |-> PendingP]]
  /\ errors' = [errors EXCEPT ![i] = <<>>]
  /\ UNCHANGED ret

\* .catch((e) => { ...; return null; }): the element promise of a rejected
\* race is fulfilled with null.
Rethrown(p, e) == [st |-> "rejected", val |-> ErrorText(e)]
Caught(p, e) == [st |-> "fulfilled", val |-> Null]

\* calls.<p>() resolves with v. Promise.race adopts it unless the timer won.
OnFnResolve(i, p, v) ==
  /\ fn[i][p].st = "pending"
  /\ fn' = [fn EXCEPT ![i][p] = [st |-> "resolved", val |-> v]]
  /\ IF Settled(i, p)
       THEN UNCHANGED <<slot, errors>>
       ELSE /\ slot' = [slot EXCEPT ![i][p] = [st |-> "fulfilled", val |-> v]]
            /\ UNCHANGED errors
  /\ UNCHANGED <<ppc, timer, ret>>

\* The catch handler placing its message in front of the earlier ones
OnFnRejectUnshift(i, p, e) ==
  /\ fn[i][p].st = "pending"
  /\ fn' = [fn EXCEPT ![i][p] = [st |-> "rejected", val |-> ErrorText(e)]]
  /\ IF Settled(i, p)
       THEN UNCHANGED <<slot, errors>>
       ELSE /\ slot' = [slot EXCEPT ![i][p] = Caught(p, e)]
            /\ errors' = [errors EXCEPT ![i] = <<CatchMsg(p, e)>> \o @]
  /\ UNCHANGED <<ppc, timer, ret>>
\* The catch handler running for a call whose race the timer has settled
OnFnRejectLate(i, p, e) ==
  /\ fn[i][p].st = "pending"
  /\ fn' = [fn EXCEPT ![i][p] = [st |-> "rejected", val |-> ErrorText(e)]]
  /\ slot' = [slot EXCEPT ![i][p] = Caught(p, e)]
  /\ errors' = [errors EXCEPT ![i] = Append(@, CatchMsg(p, e))]
  /\ UNCHANGED <<ppc, timer, ret>>
\* calls.<p>() rejects with e. The catch handler pushes the message and
\* yields null, unless the race was already settled by the timer.
OnFnReject(i, p, e) ==
  /\ fn[i][p].st = "pending"
  /\ fn' = [fn EXCEPT ![i][p] = [st |-> "rejected", val |-> ErrorText(e)]]
  /\ IF Settled(i, p)
       THEN UNCHANGED <<slot, errors>>
       ELSE /\ slot' = [slot EXCEPT ![i][p] = Caught(p, e)]
            /\ errors' = [errors EXCEPT ![i] = Append(@, CatchMsg(p, e))]
  /\ UNCHANGED <<ppc, timer, ret>>

\* Timers armed in the same run fire in the order of their delays.
TimerDue(i, p) ==
  /\ timer[i][p] = "armed"
  /\ \A q \in Providers : TimeoutMs(q) < TimeoutMs(p) => timer[i][q] # "armed"

\* safeCall's setTimeout callback: reject(new Error(`Timeout after ...`)).
\* It has no effect on a race already settled by the call.
TimerFireNoReject(i, p) ==
  /\ TimerDue(i, p)
  /\ timer' = [timer EXCEPT ![i][p] = "fired"]
  /\ UNCHANGED <<ppc, fn, slot, errors, ret>>
TimerFire(i, p) ==
  /\ TimerDue(i, p)
  /\ timer' = [timer EXCEPT ![i][p] = "fired"]
  /\ IF Settled(i, p)
       THEN UNCHANGED <<slot, errors>>
       ELSE /\ slot' = [slot EXCEPT ![i][p] =
                          Caught(p, TimeoutError(TimeoutMs(p)))]
            /\ errors' = [errors EXCEPT ![i] =
                            Append(@, CatchMsg(p, TimeoutError(TimeoutMs(p))))]
  /\ UNCHANGED <<ppc, fn, ret>>

\* The destructured array [exaResult, firecrawlResult, perplexityResult]
\* and the object literal of the return statement.
ResultSlotsSwapped(i) ==
  [returned |-> TRUE,
   exa |-> slot[i]["firecrawl"].val,
   firecrawl |-> slot[i]["exa"].val,
   perplexity |-> slot[i]["perplexity"].val]
ResultSlots(i) ==
  [returned |-> TRUE,
   exa |-> slot[i]["exa"].val,
   firecrawl |-> slot[i]["firecrawl"].val,
   perplexity |-> slot[i]["perplexity"].val]

Return(i) ==
  /\ ppc[i] = "awaiting"
  /\ JoinRejected(i) \/ JoinReady(i)
  /\ IF JoinRejected(i)
       THEN /\ ppc' = [ppc EXCEPT ![i] = "raised"]
            /\ UNCHANGED ret
       ELSE /\ ppc' = [ppc EXCEPT ![i] = "returned"]
            /\ ret' = [ret EXCEPT ![i] = ResultSlots(i)]
  /\ UNCHANGED <<fn, timer, slot, errors>>

\* The ParallelResults object the caller holds: its errors field is the
\* errors array itself, not a copy.
ParallelResults(i) ==
  [exa |-> ret[i].exa, firecrawl |-> ret[i].firecrawl,
   perplexity |-> ret[i].perplexity, errors |-> errors[i]]

\* The ParallelResults object as the caller receives it in the step in which
\* parallelServices returns
AwaitedResults(i) ==
  [exa |-> ResultSlots(i).exa, firecrawl |-> ResultSlots(i).firecrawl,
   perplexity |-> ResultSlots(i).perplexity, errors |-> errors[i]]

(***************************************************************************)
(* utils/parallel.ts: batchProcess                                         *)
(***************************************************************************)
Items == {"a", "b"}

\* The value processor(item) resolves with when it succeeds.
ProcValue(item) == Value("f(" \o item \o ")")

Min(a, b) == IF a < b THEN a ELSE b

\* The 1-based positions of items.slice(i), the whole rest of the list
BatchRangeRest(i) == (i + 1)..Len(bItems)
\* The 1-based positions of items.slice(i, i + batchSize)
BatchRange(i) == (i + 1)..Min(i + bSize, Len(bItems))

\* The message numbering the item within its batch
BatchMsgInBatch(k, e) ==
  "Batch item " \o ToString((k - 1) % bSize) \o ": " \o ErrorText(e)
\* `Batch item ${i + idx}: ${...}`, with the 0-based position in items
BatchMsg(k, e) == "Batch item " \o ToString(k - 1) \o ": " \o ErrorText(e)

\* batch.map((item, idx) => processor(item).catch(...)): every processor
\* call of the batch is started in one synchronous run.
BatchLaunch ==
  /\ bpc = "loop"
  /\ bI < Len(bItems)
  /\ bCalls' = [k \in DOMAIN bCalls |->
                  IF k \in BatchRange(bI) THEN PendingP ELSE bCalls[k]]
  /\ bpc' = "awaiting"
  /\ UNCHANGED <<bItems, bSize, bI, bResults, bErrors>>

\* processor(items[k]) resolves.
OnProcResolve(k, v) ==
  /\ bpc = "awaiting"
  /\ k \in DOMAIN bCalls
  /\ bCalls[k].st = "pending"
  /\ bCalls' = [bCalls EXCEPT ![k] = [st |-> "resolved", val |-> v]]
  /\ UNCHANGED <<bpc, bItems, bSize, bI, bResults, bErrors>>

\* processor(items[k]) rejects: the catch handler pushes the message and
\* yields null.
OnProcReject(k, e) ==
  /\ bpc = "awaiting"
  /\ k \in DOMAIN bCalls
  /\ bCalls[k].st = "pending"
  /\ bCalls' = [bCalls EXCEPT ![k] = [st |-> "rejected", val |-> Null]]
  /\ bErrors' = Append(bErrors, BatchMsg(k, e))
  /\ UNCHANGED <<bpc, bItems, bSize, bI, bResults>>

\* The array Promise.all resolves with: one element per item of the batch,
\* in the order of the batch.
BatchResultsDropFailed(i) ==
  LET ok == SelectSeq([j \in 1..(Min(i + bSize, Len(bItems)) - i) |-> i + j],
                      LAMBDA k : bCalls[k].st = "resolved")
  IN [j \in 1..Len(ok) |-> bCalls[ok[j]].val]
BatchResults(i) ==
  [j \in 1..(Min(i + bSize, Len(bItems)) - i) |-> bCalls[i + j].val]

\* The await continuing as soon as one call of the batch has settled
BatchJoinAny ==
  /\ bpc = "awaiting"
  /\ \E k \in BatchRange(bI) : bCalls[k].st \in {"resolved", "rejected"}
  /\ bResults' = bResults \o BatchResults(bI)
  /\ bI' = bI + bSize
  /\ bpc' = "loop"
  /\ UNCHANGED <<bItems, bSize, bCalls, bErrors>>
\* await Promise.all(...) continues; results.push(...batchResults); i += batchSize
BatchJoin ==
  /\ bpc = "awaiting"
  /\ \A k \in BatchRange(bI) : bCalls[k].st \in {"resolved", "rejected"}
  /\ bResults' = bResults \o BatchResults(bI)
  /\ bI' = bI + bSize
  /\ bpc' = "loop"
  /\ UNCHANGED <<bItems, bSize, bCalls, bErrors>>

\* The loop condition fails: return { results, errors }
BatchReturn ==
  /\ bpc = "loop"
  /\ ~(bI < Len(bItems))
  /\ bpc' = "done"
  /\ UNCHANGED <<bItems, bSize, bI, bCalls, bResults, bErrors>>

BatchIdle ==
  /\ bpc = "idle"
  /\ bItems = <<>>
  /\ bSize = 1
  /\ bI = 0
  /\ bCalls = <<>>
  /\ bResults = <<>>
  /\ bErrors = <<>>

\* batchProcess(items, batchSize, processor) is entered: results = [],
\* errors = [], i = 0.
BatchEnter(items, batchSize) ==
  /\ bpc = "idle"
  /\ bpc' = "loop"
  /\ bItems' = items
  /\ bSize' = batchSize
  /\ bI' = 0
  /\ bCalls' = [k \in 1..Len(items) |-> [st |-> "notCalled", val |-> Null]]
  /\ bResults' = <<>>
  /\ bErrors' = <<>>

EngineInit ==
  /\ ppc = [i \in Inst |-> "idle"]
  /\ fn = [i \in Inst |-> [p \in Providers |-> [st |-> "notCalled", val |-> Null]]]
  /\ timer = [i \in Inst |-> [p \in Providers |-> "unset"]]
  /\ slot = [i \in Inst |-> [p \in Providers |-> PendingP]]
  /\ errors = [i \in Inst |-> <<>>]
  /\ ret = [i \in Inst |-> NoRet]

(***************************************************************************)
(* Text. A string that is only compared, measured and joined is a TLA+     *)
(* string; a (multi-line) text is the sequence of its lines.               *)
(***************************************************************************)
Last(s) == s[Len(s)]
Front(s) == SubSeq(s, 1, Len(s) - 1)

\* a + b on texts: the last line of a continues with the first line of b
Cat(a, b) == Front(a) \o <<Last(a) \o b[1]>> \o Tail(b)

RECURSIVE CatAll(_)
CatAll(ts) == IF Len(ts) = 1 THEN ts[1] ELSE Cat(ts[1], CatAll(Tail(ts)))

\* [t1, t2, ...].join("\n"): every element starts on a new line
RECURSIVE JoinNL(_)
JoinNL(ts) == IF ts = <<>> THEN <<"">>
              ELSE IF Len(ts) = 1 THEN ts[1]
              ELSE ts[1] \o JoinNL(Tail(ts))

\* [s1, s2, ...].join(sep) on one-line strings
RECURSIVE JoinStr(_, _)
JoinStr(ss, sep) == IF ss = <<>> THEN ""
                    ELSE IF Len(ss) = 1 THEN ss[1]
                    ELSE ss[1] \o sep \o JoinStr(Tail(ss), sep)

(***************************************************************************)
(* utils/dedup.ts                                                          *)
(***************************************************************************)
\* The URL of the k-th generated site, and the decimal digits of k
SiteUrl(k) == "https://site" \o ToString(k) \o ".com"
RECURSIVE Digits(_)
Digits(k) == IF k < 10 THEN <<ToString(k)>>
             ELSE Digits(k \div 10) \o <<ToString(k % 10)>>

\* The URLs of the model, each with its characters. They have the form
\* [scheme://]host[/path][?query][#fragment].
Chars(url) ==
  CASE url = "https://a.com/x" ->
         <<"h","t","t","p","s",":","/","/","a",".","c","o","m","/","x">>
    [] url = "http://www.a.com/x/" ->
         <<"h","t","t","p",":","/","/","w","w","w",".","a",".","c","o","m","/","x","/">>
    [] url = "https://b.com/y" ->
         <<"h","t","t","p","s",":","/","/","b",".","c","o","m","/","y">>
    [] url = "https://A.com/z" ->
         <<"h","t","t","p","s",":","/","/","A",".","c","o","m","/","z">>
    [] url = "a.com/x" ->
         <<"a",".","c","o","m","/","x">>
    [] url = "perplexity://synthesis" ->
         <<"p","e","r","p","l","e","x","i","t","y",":","/","/",
           "s","y","n","t","h","e","s","i","s">>
    [] OTHER ->
         LET k == CHOOSE k \in 1..MaxMerged : SiteUrl(k) = url
         IN <<"h","t","t","p","s",":","/","/","s","i","t","e">>
            \o Digits(k) \o <<".","c","o","m">>

\* String.prototype.toLowerCase, on the letters the model's URLs use
LowerChar(c) == IF c = "A" THEN "a" ELSE IF c = "X" THEN "x" ELSE c
ToLowerCase(s) == [k \in 1..Len(s) |-> LowerChar(s[k])]

StartsWith(s, pre) == Len(s) >= Len(pre) /\ SubSeq(s, 1, Len(pre)) = pre
DropPrefix(s, pre) == IF StartsWith(s, pre) THEN SubSeq(s, Len(pre) + 1, Len(s)) ELSE s

\* .replace(/^www\./, "")
StripWww(s) == DropPrefix(s, <<"w","w","w",".">>)

\* .replace(/\/+$/, "")
RECURSIVE StripTrailingSlashes(_)
StripTrailingSlashes(s) ==
  IF s # <<>> /\ Last(s) = "/" THEN StripTrailingSlashes(Front(s)) ELSE s

\* .replace(/^https?:\/\//, "")
StripHttpScheme(s) ==
  IF StartsWith(s, <<"h","t","t","p",":","/","/">>)
    THEN DropPrefix(s, <<"h","t","t","p",":","/","/">>)
    ELSE DropPrefix(s, <<"h","t","t","p","s",":","/","/">>)

\* The position of the first character of s, from position from on, that is
\* in stops (Len(s) + 1 when there is none)
RECURSIVE FirstOf(_, _, _)
FirstOf(s, from, stops) ==
  IF from > Len(s) THEN Len(s) + 1
  ELSE IF s[from] \in stops THEN from
  ELSE FirstOf(s, from + 1, stops)

\* new URL(url): the position of "://" ends the scheme; a string without a
\* scheme does not parse. hostname runs to the first of "/", "?", "#" (a
\* port is not part of it); pathname runs from there to the first of "?",
\* "#", and is "/" when empty under http and https.
SchemeEnd(s) == FirstOf(s, 1, {":", "/", "?", "#"})
Parses(s) ==
  /\ SchemeEnd(s) > 1
  /\ SchemeEnd(s) + 2 <= Len(s)
  /\ SubSeq(s, SchemeEnd(s), SchemeEnd(s) + 2) = <<":", "/", "/">>
  /\ FirstOf(s, SchemeEnd(s) + 3, {"/", "?", "#", ":"}) > SchemeEnd(s) + 3
IsSpecial(s) ==
  SubSeq(s, 1, SchemeEnd(s) - 1) \in {<<"h","t","t","p">>, <<"h","t","t","p","s">>}
Hostname(s) ==
  ToLowerCase(SubSeq(s, SchemeEnd(s) + 3,
                     FirstOf(s, SchemeEnd(s) + 3, {"/", "?", "#", ":"}) - 1))
Pathname(s) ==
  LET a == FirstOf(s, SchemeEnd(s) + 3, {"/", "?", "#"})
      b == FirstOf(s, a, {"?", "#"})
      path == SubSeq(s, a, b - 1)
  IN IF path = <<>> /\ IsSpecial(s) THEN <<"/">> ELSE path

\* normalizeUrl: the key is a sequence of characters
NormalizeChars(s) ==
  IF Parses(s)
    THEN ToLowerCase(StripWww(Hostname(s)) \o StripTrailingSlashes(Pathname(s)))
    ELSE StripTrailingSlashes(StripWww(StripHttpScheme(ToLowerCase(s))))
normalizeUrl(url) == NormalizeChars(Chars(url))

\* A SearchResult / MergedResult field that is undefined
Undefined == "undefined"
Truthy(s) == s # Undefined /\ s # ""
StrLen(s) == Len(s)

\* The position of the record with this key in the map (0 when absent)
KeyIndex(map, key) ==
  IF \E k \in 1..Len(map) : map[k].normalizedUrl = key
    THEN CHOOSE k \in 1..Len(map) : map[k].normalizedUrl = key
    ELSE 0

SeqContains(s, x) == \E k \in 1..Len(s) : s[k] = x

\* The existing entry updated without the test of sources.includes
MergeIntoAlwaysPush(existing, r) ==
  [existing EXCEPT !.sources = Append(existing.sources, r.source),
                   !.relevanceScore = existing.relevanceScore + 1]
\* The existing entry updated with the score of r added for a new source
MergeIntoAddScore(existing, r) ==
  IF SeqContains(existing.sources, r.source) THEN existing
  ELSE [existing EXCEPT !.sources = Append(existing.sources, r.source),
                        !.relevanceScore = existing.relevanceScore + 1 + r.score]
\* The existing entry taking every text that is at least as long
MergeIntoLongestLast(existing, r) ==
  LET newSource == ~SeqContains(existing.sources, r.source)
  IN [url |-> existing.url,
      normalizedUrl |-> existing.normalizedUrl,
      title |-> existing.title,
      snippet |->
        IF Truthy(r.snippet) /\ StrLen(r.snippet) >= StrLen(existing.snippet)
          THEN r.snippet ELSE existing.snippet,
      content |->
        IF Truthy(r.content)
           /\ (~Truthy(existing.content)
               \/ StrLen(r.content) >= StrLen(existing.content))
          THEN r.content ELSE existing.content,
      publishedDate |->
        IF ~Truthy(existing.publishedDate) /\ Truthy(r.publishedDate)
          THEN r.publishedDate ELSE existing.publishedDate,
      sources |->
        IF newSource THEN Append(existing.sources, r.source) ELSE existing.sources,
      relevanceScore |->
        IF newSource THEN existing.relevanceScore + 1 ELSE existing.relevanceScore]
\* The body of the loop of mergeResults for one item r
MergeInto(existing, r) ==
  LET newSource == ~SeqContains(existing.sources, r.source)
  IN [url |-> existing.url,
      normalizedUrl |-> existing.normalizedUrl,
      title |-> existing.title,
      snippet |->
        IF Truthy(r.snippet) /\ StrLen(r.snippet) > StrLen(existing.snippet)
          THEN r.snippet ELSE existing.snippet,
      content |->
        IF Truthy(r.content)
           /\ (~Truthy(existing.content)
               \/ StrLen(r.content) > StrLen(existing.content))
          THEN r.content ELSE existing.content,
      publishedDate |->
        IF ~Truthy(existing.publishedDate) /\ Truthy(r.publishedDate)
          THEN r.publishedDate ELSE existing.publishedDate,
      sources |->
        IF newSource THEN Append(existing.sources, r.source) ELSE existing.sources,
      relevanceScore |->
        IF newSource THEN existing.relevanceScore + 1 ELSE existing.relevanceScore]

\* The loop body with the map keyed by the URL as given
MergeStepRawUrl(map, r) ==
  LET at == IF \E k \in 1..Len(map) : map[k].url = r.url
              THEN CHOOSE k \in 1..Len(map) : map[k].url = r.url
              ELSE 0
  IN IF at # 0
       THEN [k \in 1..Len(map) |-> IF k = at THEN MergeInto(map[k], r) ELSE map[k]]
       ELSE Append(map,
              [url |-> r.url,
               normalizedUrl |-> normalizeUrl(r.url),
               title |-> IF Truthy(r.title) THEN r.title ELSE r.url,
               snippet |-> IF Truthy(r.snippet) THEN r.snippet ELSE "",
               content |-> r.content,
               publishedDate |-> r.publishedDate,
               sources |-> <<r.source>>,
               relevanceScore |-> 1 + r.score])
\* The loop body giving an existing entry the URL of the item merged last
MergeStepLastUrl(map, r) ==
  LET key == normalizeUrl(r.url)
      at == KeyIndex(map, key)
  IN IF at # 0
       THEN [k \in 1..Len(map) |->
               IF k = at THEN [MergeInto(map[k], r) EXCEPT !.url = r.url] ELSE map[k]]
       ELSE Append(map,
              [url |-> r.url,
               normalizedUrl |-> key,
               title |-> IF Truthy(r.title) THEN r.title ELSE r.url,
               snippet |-> IF Truthy(r.snippet) THEN r.snippet ELSE "",
               content |-> r.content,
               publishedDate |-> r.publishedDate,
               sources |-> <<r.source>>,
               relevanceScore |-> 1 + r.score])
MergeStep(map, r) ==
  LET key == normalizeUrl(r.url)
      at == KeyIndex(map, key)
  IN IF at # 0
       THEN [k \in 1..Len(map) |-> IF k = at THEN MergeInto(map[k], r) ELSE map[k]]
       ELSE Append(map,
              [url |-> r.url,
               normalizedUrl |-> key,
               title |-> IF Truthy(r.title) THEN r.title ELSE r.url,
               snippet |-> IF Truthy(r.snippet) THEN r.snippet ELSE "",
               content |-> r.content,
               publishedDate |-> r.publishedDate,
               sources |-> <<r.source>>,
               relevanceScore |-> 1 + r.score])

\* mergeResults: the values of the Map in insertion order
RECURSIVE MergeFold(_, _)
MergeFold(map, results) ==
  IF results = <<>> THEN map
  ELSE MergeFold(MergeStep(map, Head(results)), Tail(results))
mergeResults(results) == MergeFold(<<>>, results)

\* The comparator without its secondary key
RankCompareSourcesOnly(a, b) == Len(b.sources) - Len(a.sources)
\* The comparator of rankByRelevance: negative when a sorts before b
RankCompare(a, b) ==
  IF Len(b.sources) # Len(a.sources)
    THEN Len(b.sources) - Len(a.sources)
    ELSE b.relevanceScore - a.relevanceScore

\* Array.prototype.sort is stable: x goes after the last element that does
\* not sort after it
RECURSIVE InsertRanked(_, _)
InsertRanked(sorted, x) ==
  IF sorted = <<>> THEN <<x>>
  ELSE IF RankCompare(Last(sorted), x) <= 0 THEN Append(sorted, x)
  ELSE Append(InsertRanked(Front(sorted), x), Last(sorted))
RECURSIVE rankByRelevance(_)
rankByRelevance(results) ==
  IF results = <<>> THEN <<>>
  ELSE InsertRanked(rankByRelevance(Front(results)), Last(results))

\* deduplicateUrls: the first occurrence of every key
RECURSIVE DedupFrom(_, _)
DedupFrom(seen, urls) ==
  IF urls = <<>> THEN <<>>
  ELSE IF normalizeUrl(Head(urls)) \in seen THEN DedupFrom(seen, Tail(urls))
  ELSE <<Head(urls)>> \o DedupFrom(seen \cup {normalizeUrl(Head(urls))}, Tail(urls))
deduplicateUrlsAll(urls) == urls
deduplicateUrls(urls) == DedupFrom({}, urls)

(***************************************************************************)
(* utils/formatters.ts                                                     *)
(***************************************************************************)
\* s.slice(0, n): the strings of the model are shorter than every n used
Slice(s, n) == IF Len(s) <= n THEN s ELSE Undefined

\* countSources: the number of distinct services among the items
countSources(items) ==
  Cardinality(UNION {{r.sources[k] : k \in 1..Len(r.sources)} :
                       r \in {items[j] : j \in 1..Len(items)}})

\* The backquote, which a TLA+ string cannot hold, is written as '
BQ == "'"
SourcesBadge(r) == JoinStr([k \in 1..Len(r.sources) |-> BQ \o r.sources[k] \o BQ], " ")

\* The lines formatSearchResults pushes for item i
ResultEntry(r, i, showContent) ==
  <<"### " \o ToString(i) \o ". [" \o r.title \o "](" \o r.url \o ")">>
  \o <<"Sources: " \o SourcesBadge(r)
         \o (IF Truthy(r.publishedDate)
               THEN " | " \o Slice(r.publishedDate, 10) ELSE ""),
       "">>
  \o (IF Truthy(r.snippet) THEN <<"> " \o Slice(r.snippet, 500), "">> ELSE <<>>)
  \o (IF showContent /\ Truthy(r.content)
        THEN <<"<details><summary>Full content</summary>", "",
               Slice(r.content, 5000), "", "</details>", "">>
        ELSE <<>>)

RECURSIVE ResultEntries(_, _, _)
ResultEntries(items, i, showContent) ==
  IF i > Len(items) THEN <<>>
  ELSE ResultEntry(items[i], i, showContent) \o ResultEntries(items, i + 1, showContent)

\* formatSearchResults without the return for an empty list
formatSearchResultsNoEmptyCase(results, showContent, maxResults) ==
  LET items == SubSeq(results, 1, Min(maxResults, Len(results)))
  IN <<"## Search Results (" \o ToString(Len(items)) \o " unique from "
         \o ToString(countSources(items)) \o " services)", "">>
     \o ResultEntries(items, 1, showContent)
\* formatSearchResults(results, { showContent, maxResults })
formatSearchResults(results, showContent, maxResults) ==
  LET items == SubSeq(results, 1, Min(maxResults, Len(results)))
  IN IF Len(items) = 0
       THEN <<"No results found.">>
       ELSE <<"## Search Results (" \o ToString(Len(items)) \o " unique from "
                \o ToString(countSources(items)) \o " services)", "">>
            \o ResultEntries(items, 1, showContent)

\* options?.maxResults ?? results.length
MaxOption(maxResults, results) ==
  IF maxResults = Null THEN Len(results) ELSE maxResults.v

\* An item of formatComparison is an object: the sequence of its
\* <<key, value>> pairs in insertion order. item[key] and Object.keys(item):
ItemGet(item, key) ==
  IF \E k \in 1..Len(item) : item[k][1] = key
    THEN item[CHOOSE k \in 1..Len(item) : item[k][1] = key][2]
    ELSE Undefined
ItemKeys(item) == [k \in 1..Len(item) |-> item[k][1]]

\* formatComparison(items, criteria)
formatComparison(items, criteria) ==
  IF Len(items) = 0 THEN <<"No items to compare.">>
  ELSE
    LET cols == IF Len(criteria) > 0 THEN criteria
                ELSE SelectSeq(ItemKeys(items[1]),
                               LAMBDA k : k # "url" /\ k # "source")
        Row(i) ==
          LET item == items[i]
              values == [c \in 1..Len(cols) |->
                           IF ItemGet(item, cols[c]) = Undefined THEN "-"
                           ELSE Slice(ItemGet(item, cols[c]), 100)]
              source == IF Truthy(ItemGet(item, "url"))
                          THEN "[link](" \o ItemGet(item, "url") \o ")" ELSE "-"
          IN "| " \o ToString(i) \o " | " \o JoinStr(values, " | ")
               \o " | " \o source \o " |"
    IN <<"## Comparison (" \o ToString(Len(items)) \o " offers)", "">>
       \o <<"| # | " \o JoinStr(cols, " | ") \o " | Source |">>
       \o <<"|---|" \o JoinStr([c \in 1..Len(cols) |-> "---"], "|") \o "|---|">>
       \o [i \in 1..Len(items) |-> Row(i)]

\* formatErrors(errors)
formatErrors(errs) ==
  IF Len(errs) = 0 THEN <<"">>
  ELSE <<"", "---">>
       \o <<"**WARNING: " \o ToString(Len(errs)) \o " service(s) failed:**", "">>
       \o [k \in 1..Len(errs) |-> "- " \o errs[k]]
       \o <<"">>

\* formatServiceStatus({ exa, firecrawl, perplexity })
Mark(ok) == IF ok THEN "OK" ELSE "FAILED"
formatServiceStatus(exaOk, firecrawlOk, perplexityOk) ==
  <<"**Services:** Exa: " \o Mark(exaOk) \o " | Firecrawl: " \o Mark(firecrawlOk)
      \o " | Perplexity: " \o Mark(perplexityOk), "">>

(***************************************************************************)
(* The provider clients (clients/exa.ts, clients/firecrawl.ts,             *)
(* clients/perplexity.ts) as seen by the tools: a request is issued,       *)
(* stays pending for an arbitrary time (no client sets a timeout or an     *)
(* abort signal), and then resolves with a response or throws.             *)
(***************************************************************************)
Site(p, method, k) == <<p, method, k>>

PendingR == [st |-> "pending", val |-> Null]
Ok(resp) == [st |-> "ok", val |-> Value(resp)]
Failed == [st |-> "failed", val |-> Null]

\* The requests after the calls at the sites S have been made
Issue(S) == [s \in DOMAIN req \cup S |-> IF s \in S THEN PendingR ELSE req[s]]
IsPending(s) == s \in DOMAIN req /\ req[s].st = "pending"

ApiName(p) ==
  CASE p = "exa" -> "Exa"
    [] p = "firecrawl" -> "Firecrawl"
    [] p = "perplexity" -> "Perplexity"
Endpoint(method) ==
  CASE method = "search" -> "/search"
    [] method = "findSimilar" -> "/findSimilar"
    [] method = "getContents" -> "/contents"
    [] method = "scrape" -> "/scrape"
    [] method = "extract" -> "/extract"

\* The Error a client throws on a response that is not OK (here status 500
\* with an empty body)
ClientError(s) ==
  [isError |-> TRUE,
   text |-> IF s[1] = "perplexity"
              THEN "Perplexity API failed (500): "
              ELSE ApiName(s[1]) \o " API " \o Endpoint(s[2]) \o " failed (500): "]

\* Responses of the providers. An absent string field is Undefined, an
\* absent list is empty (every reader of the model's lists treats the two
\* alike), an absent score is 0 (it is read as r.score || 0).
ExaA ==
  [title |-> "A", url |-> "https://a.com/x", publishedDate |-> "2024-01-02",
   text |-> "alpha text", highlights |-> <<>>, summary |-> "about a", score |-> 2]
ExaSearchResponses == {[results |-> <<>>], [results |-> <<ExaA>>]}

FcA ==
  [url |-> "http://www.a.com/x/", title |-> "A (www)", description |-> "",
   markdown |-> "alpha markdown"]
FirecrawlSearchResponses == {[data |-> <<>>], [data |-> <<FcA>>]}

CitB == [url |-> "https://b.com/y", title |-> Undefined, snippet |-> "about b"]
PerplexityResponses ==
  {[text |-> "", citations |-> <<>>],
   [text |-> "Synthesis.", citations |-> <<CitB>>]}

PageData == [title |-> "Page", summary |-> "page summary", markdown |-> "page markdown"]
ScrapeResponses == {[success |-> TRUE, data |-> Value(PageData)],
                    [success |-> FALSE, data |-> Null]}

ExtractResponses == {[success |-> TRUE, data |-> Value("offer")],
                     [success |-> FALSE, data |-> Null]}

Responses(s) ==
  CASE s[1] = "exa" -> ExaSearchResponses
    [] s[1] = "perplexity" -> PerplexityResponses
    [] s[1] = "firecrawl" /\ s[2] = "search" -> FirecrawlSearchResponses
    [] s[1] = "firecrawl" /\ s[2] = "scrape" -> ScrapeResponses
    [] s[1] = "firecrawl" /\ s[2] = "extract" -> ExtractResponses

\* a || b on strings
Or(a, b) == IF Truthy(a) THEN a ELSE b
\* s?.slice(0, n)
SliceOpt(s, n) == IF s = Undefined THEN Undefined ELSE Slice(s, n)

(***************************************************************************)
(* The mappings of provider responses to SearchResult lists                *)
(***************************************************************************)
ExaToSearchResults(res) ==
  [k \in 1..Len(res.results) |->
     LET r == res.results[k]
     IN [url |-> r.url,
         title |-> r.title,
         snippet |-> Or(JoinStr(r.highlights, " "), Or(SliceOpt(r.text, 300), "")),
         content |-> r.text,
         publishedDate |-> r.publishedDate,
         source |-> "exa",
         score |-> r.score]]

FirecrawlToSearchResults(data) ==
  [k \in 1..Len(data) |->
     LET r == data[k]
     IN [url |-> r.url,
         title |-> Or(r.title, ""),
         snippet |-> Or(r.description, Or(SliceOpt(r.markdown, 300), "")),
         content |-> r.markdown,
         publishedDate |-> Undefined,
         source |-> "firecrawl",
         score |-> 0]]

CitationsToSearchResults(citations) ==
  [k \in 1..Len(citations) |->
     LET c == citations[k]
     IN [url |-> c.url,
         title |-> Or(c.title, ""),
         snippet |-> Or(c.snippet, ""),
         content |-> Undefined,
         publishedDate |-> Undefined,
         source |-> "perplexity",
         score |-> 0]]

\* searchResults.unshift({ url: "perplexity://synthesis", ... }) if res.text
WithSynthesis(res, synthesisTitle, searchResults) ==
  IF Truthy(res.text)
    THEN <<[url |-> "perplexity://synthesis",
            title |-> synthesisTitle,
            snippet |-> Slice(res.text, 500),
            content |-> res.text,
            publishedDate |-> Undefined,
            source |-> "perplexity",
            score |-> 0]>> \o searchResults
    ELSE searchResults

\* allResults: the slots of the services that succeeded, in the order exa,
\* firecrawl, perplexity
\* allResults without the push of the Firecrawl results
AllResultsNoFirecrawl(results) ==
  (IF results.exa # Null THEN results.exa.v ELSE <<>>)
  \o (IF results.perplexity # Null THEN results.perplexity.v ELSE <<>>)
AllResults(results) ==
  (IF results.exa # Null THEN results.exa.v ELSE <<>>)
  \o (IF results.firecrawl # Null THEN results.firecrawl.v ELSE <<>>)
  \o (IF results.perplexity # Null THEN results.perplexity.v ELSE <<>>)

StatusOf(results) ==
  formatServiceStatus(results.exa # Null, results.firecrawl # Null,
                      results.perplexity # Null)

(***************************************************************************)
(* The tool executors. One invocation runs at a time; it uses engine       *)
(* invocation 0. A provider request that settles runs the continuation of  *)
(* the code awaiting it in the same step. A request whose branch the       *)
(* engine has already settled (by its timer) is not followed further: its  *)
(* continuation can only settle the promise the race has abandoned.        *)
(***************************************************************************)
NoTool ==
  [name |-> "none", url |-> "", urls |-> <<>>, extractPrompt |-> "",
   criteria |-> Null, depth |-> Null, focusAreas |-> <<>>]
NoLocals == [title |-> "", summary |-> ""]

\* No function of utils/ is being called directly
NoCall == [fn |-> "none"]
LibIdle == lib = NoCall

ToolIdle ==
  /\ tpc = "idle"
  /\ tool = NoTool
  /\ req = <<>>
  /\ loc = NoLocals
  /\ allErrors = <<>>
  /\ report = <<>>

\* The branch of provider p consists of one request at site s; the request
\* resolves and the branch returns value
BranchReturns(p, s, resp, value) ==
  /\ tpc = "services"
  /\ IsPending(s)
  /\ ~Settled(0, p)
  /\ req' = [req EXCEPT ![s] = Ok(resp)]
  /\ OnFnResolve(0, p, Value(value))

\* ... or the request throws and the branch rejects with the client's error
BranchThrows(p, s) ==
  /\ tpc = "services"
  /\ IsPending(s)
  /\ ~Settled(0, p)
  /\ req' = [req EXCEPT ![s] = Failed]
  /\ OnFnReject(0, p, ClientError(s))

(***************************************************************************)
(* deep_search                                                             *)
(***************************************************************************)
DsSite(p) == Site(p, "search", 0)

\* Math.min(params.numResults ?? defaultNumResults, 50)
MaxNumResults == 50
DsNumResultsUnclamped(numResults, defaultNumResults) ==
  IF numResults = Null THEN defaultNumResults ELSE numResults.v
DsNumResults(numResults, defaultNumResults) ==
  Min(IF numResults = Null THEN defaultNumResults ELSE numResults.v, MaxNumResults)

\* The number of results the search request of provider p asks for:
\* numResults for Exa, limit for Firecrawl, none for Perplexity
DsRequested(p, numResults) ==
  CASE p = "exa" -> Value(numResults)
    [] p = "firecrawl" -> Value(numResults)
    [] p = "perplexity" -> Null

DsBranchValue(p, res) ==
  CASE p = "exa" -> ExaToSearchResults(res)
    [] p = "firecrawl" -> FirecrawlToSearchResults(res.data)
    [] p = "perplexity" ->
         WithSynthesis(res, "Perplexity AI Summary",
                       CitationsToSearchResults(res.citations))

\* status + formatSearchResults(merged, { showContent: false })
\*        + formatErrors(results.errors)
DsReport(results) ==
  LET merged == rankByRelevance(mergeResults(AllResults(results)))
  IN CatAll(<<StatusOf(results),
              formatSearchResults(merged, FALSE, Len(merged)),
              formatErrors(results.errors)>>)

\* The executor runs up to the await of parallelServices: the three
\* branches have issued their search requests.
DsInvoke ==
  /\ tpc = "idle"
  /\ Start(0)
  /\ tool' = [NoTool EXCEPT !.name = "deep_search"]
  /\ req' = Issue({DsSite(p) : p \in Providers})
  /\ tpc' = "services"
  /\ UNCHANGED <<batchVars, loc, allErrors, report, lib>>

DsCallOk ==
  /\ tool.name = "deep_search"
  /\ \E p \in Providers : \E res \in Responses(DsSite(p)) :
       BranchReturns(p, DsSite(p), res, DsBranchValue(p, res))
  /\ UNCHANGED <<batchVars, tpc, tool, loc, allErrors, report, lib>>

DsCallFail ==
  /\ tool.name = "deep_search"
  /\ \E p \in Providers : BranchThrows(p, DsSite(p))
  /\ UNCHANGED <<batchVars, tpc, tool, loc, allErrors, report, lib>>

\* parallelServices returns; the report is compiled and returned
DsJoin ==
  /\ tool.name = "deep_search"
  /\ tpc = "services"
  /\ Return(0)
  /\ report' = DsReport(AwaitedResults(0))
  /\ tpc' = "returned"
  /\ UNCHANGED <<batchVars, tool, req, loc, allErrors, lib>>

(***************************************************************************)
(* find_similar                                                            *)
(***************************************************************************)
RefUrls == {"https://b.com/y"}

FsContentsSite == Site("exa", "getContents", 0)
FsScrapeSite == Site("firecrawl", "scrape", 0)
FsStep1Sites == {FsContentsSite, FsScrapeSite}

\* exaContent?.results?.[0]?.<field> and fcContent?.data?.<field>
\* (metadata.title is the field title of the page data)
ExaFirst(exaContent, field) ==
  IF exaContent = Null \/ exaContent.v.results = <<>>
    THEN Undefined
    ELSE exaContent.v.results[1][field]
FcData(fcContent, field) ==
  IF fcContent = Null \/ fcContent.v.data = Null
    THEN Undefined
    ELSE fcContent.v.data.v[field]

FsTitle(exaContent, fcContent, url) ==
  Or(ExaFirst(exaContent, "title"), Or(FcData(fcContent, "title"), url))
FsSummary(exaContent, fcContent) ==
  Or(ExaFirst(exaContent, "summary"),
     Or(FcData(fcContent, "summary"),
        Or(SliceOpt(ExaFirst(exaContent, "text"), 500),
           Or(SliceOpt(FcData(fcContent, "markdown"), 500), ""))))

NoContentError == "Could not extract content from reference URL for similarity search"

FsSite(p) == Site(p, IF p = "exa" THEN "findSimilar" ELSE "search", 0)

\* The sites the three branches call when they are started: the firecrawl
\* branch returns [] without a request when there is no summary.
FsStep2Sites(summ) ==
  {FsSite("exa"), FsSite("perplexity")}
  \cup (IF Truthy(summ) THEN {FsSite("firecrawl")} ELSE {})

NotRef(list, url) == SelectSeq(list, LAMBDA r : r.url # url)

FsBranchValue(p, res, url) ==
  CASE p = "exa" -> ExaToSearchResults(res)
    [] p = "firecrawl" -> FirecrawlToSearchResults(NotRef(res.data, url))
    [] p = "perplexity" ->
         WithSynthesis(res, "Perplexity Analysis",
                       CitationsToSearchResults(NotRef(res.citations, url)))

FsReport(results, errs) ==
  LET merged == rankByRelevance(mergeResults(AllResults(results)))
  IN JoinNL(<<
       <<"# Find Similar: [" \o loc.title \o "](" \o tool.url \o ")", "">>,
       StatusOf(results),
       IF Truthy(loc.summary) THEN <<"> " \o Slice(loc.summary, 300), "">> ELSE <<"">>,
       <<"**Similar results found:** " \o ToString(Len(merged)), "">>,
       formatSearchResults(merged, FALSE, Len(merged)),
       formatErrors(errs)>>)

\* Step 1: both content requests are issued; the executor awaits
\* Promise.all of them, outside the engine.
FsInvoke ==
  /\ tpc = "idle"
  /\ \E url \in RefUrls :
       tool' = [NoTool EXCEPT !.name = "find_similar", !.url = url]
  /\ req' = Issue(FsStep1Sites)
  /\ tpc' = "step1"
  /\ UNCHANGED <<engineVars, batchVars, loc, allErrors, report, lib>>

\* A step-1 request settles; .catch(() => null) turns a failure into null.
\* When both have settled the executor continues: title, summary, the
\* error for a missing summary, and the call of parallelServices.
FsStep1Settle ==
  /\ tool.name = "find_similar"
  /\ tpc = "step1"
  /\ \E s \in FsStep1Sites :
       \E out \in {Ok(res) : res \in IF s = FsContentsSite
                                       THEN ExaSearchResponses
                                       ELSE ScrapeResponses} \cup {Failed} :
         /\ IsPending(s)
         /\ LET r2 == [req EXCEPT ![s] = out]
                summ == FsSummary(r2[FsContentsSite].val, r2[FsScrapeSite].val)
            IN IF \A t \in FsStep1Sites : r2[t].st # "pending"
                 THEN /\ loc' = [title |-> FsTitle(r2[FsContentsSite].val,
                                                  r2[FsScrapeSite].val, tool.url),
                                 summary |-> summ]
                      /\ allErrors' = IF ~Truthy(summ) THEN <<NoContentError>> ELSE <<>>
                      /\ Start(0)
                      /\ req' = [s2 \in DOMAIN r2 \cup FsStep2Sites(summ) |->
                                   IF s2 \in DOMAIN r2 THEN r2[s2] ELSE PendingR]
                      /\ tpc' = "services"
                 ELSE /\ req' = r2
                      /\ UNCHANGED <<engineVars, tpc, loc, allErrors>>
  /\ UNCHANGED <<batchVars, tool, report, lib>>

\* if (!summary) return []: the firecrawl branch is settled before any
\* request or timer can be
FsNothingToSearch ==
  /\ tool.name = "find_similar"
  /\ tpc = "services"
  /\ ~Truthy(loc.summary)
FsFirecrawlSkips ==
  /\ FsNothingToSearch
  /\ OnFnResolve(0, "firecrawl", Value(<<>>))
  /\ UNCHANGED <<batchVars, tpc, tool, req, loc, allErrors, report, lib>>
FsSkipDue == FsNothingToSearch /\ fn[0]["firecrawl"].st = "pending"

FsCallOk ==
  /\ tool.name = "find_similar"
  /\ ~FsSkipDue
  /\ \E p \in Providers : \E res \in Responses(FsSite(p)) :
       BranchReturns(p, FsSite(p), res, FsBranchValue(p, res, tool.url))
  /\ UNCHANGED <<batchVars, tpc, tool, loc, allErrors, report, lib>>

FsCallFail ==
  /\ tool.name = "find_similar"
  /\ ~FsSkipDue
  /\ \E p \in Providers : BranchThrows(p, FsSite(p))
  /\ UNCHANGED <<batchVars, tpc, tool, loc, allErrors, report, lib>>

\* allErrors.push(...results.errors); the report is compiled and returned
FsJoin ==
  /\ tool.name = "find_similar"
  /\ tpc = "services"
  /\ Return(0)
  /\ allErrors' = allErrors \o errors[0]
  /\ report' = FsReport(AwaitedResults(0), allErrors \o errors[0])
  /\ tpc' = "returned"
  /\ UNCHANGED <<batchVars, tool, req, loc, lib>>

(***************************************************************************)
(* scrape_and_extract                                                      *)
(***************************************************************************)
PageUrls == <<"https://a.com/x", "https://b.com/y", "https://A.com/z">>
UrlLists == {SubSeq(PageUrls, 1, n) : n \in 1..MaxUrls}
ExtractPrompts == {Undefined, "prices"}

\* params.urls.slice(0, 20)
MaxScrapeUrls == 20
SliceUrlsAll(urls) == urls
SliceUrls(urls) == SubSeq(urls, 1, Min(MaxScrapeUrls, Len(urls)))
SeUrls == SliceUrls(tool.urls)

SeScrapeSites == {Site("firecrawl", "scrape", k) : k \in 1..Len(SeUrls)}
SeExtractSite == Site("firecrawl", "extract", 0)
SeSite(p) == Site(p, IF p = "exa" THEN "getContents" ELSE "search", 0)

\* The value of the firecrawl branch: { scrapes: scrapeResults.map((r, i)
\* => ({ url: urls[i], data: r?.data ?? null })), extraction }
SeFirecrawlValue(r2, extractResult) ==
  [scrapes |-> [k \in 1..Len(SeUrls) |->
                  LET r == r2[Site("firecrawl", "scrape", k)].val
                  IN [url |-> SeUrls[k],
                      data |-> IF r = Null THEN Null ELSE r.v.data]],
   extraction |-> extractResult]

\* JSON.stringify(extraction, null, 2) of the object { item: <data> }
JsonStringify(data) == <<"{", "  \"item\": \"" \o data \o "\"", "}">>

SeExaEntry(r) ==
  <<"### [" \o r.title \o "](" \o r.url \o ")", "">>
  \o (IF Truthy(r.summary) THEN <<"**Summary:** " \o r.summary, "">> ELSE <<>>)
  \o (IF Len(r.highlights) > 0
        THEN <<"**Key highlights:**">>
             \o [k \in 1..Len(r.highlights) |-> "- " \o r.highlights[k]]
             \o <<"">>
        ELSE <<>>)
  \o (IF Truthy(r.text)
        THEN <<"<details><summary>Full text</summary>", "",
               Slice(r.text, 5000), "", "</details>", "">>
        ELSE <<>>)

SeFirecrawlEntry(scrape) ==
  IF scrape.data = Null THEN <<>>
  ELSE LET data == scrape.data.v
       IN <<"### [" \o Or(data.title, scrape.url) \o "](" \o scrape.url \o ")", "">>
          \o (IF Truthy(data.summary)
                THEN <<"**Summary:** " \o data.summary, "">> ELSE <<>>)
          \o (IF Truthy(data.markdown)
                THEN <<"<details><summary>Markdown content</summary>", "",
                       Slice(data.markdown, 5000), "", "</details>", "">>
                ELSE <<>>)

\* The concatenation of a list of lists
RECURSIVE Flat(_)
Flat(lists) == IF lists = <<>> THEN <<>> ELSE Head(lists) \o Flat(Tail(lists))

\* output.join("\n") of the lines pushed by the executor
SeReport(results, errs) ==
  <<"# Scrape & Extract: " \o ToString(Len(SeUrls)) \o " URLs", "">>
  \o (IF results.exa # Null
        THEN <<"## Content (Exa)", "">> \o Flat([k \in 1..Len(results.exa.v) |-> SeExaEntry(results.exa.v[k])])
        ELSE <<>>)
  \o (IF results.firecrawl # Null
        THEN <<"## Content (Firecrawl)", "">>
             \o Flat([k \in 1..Len(results.firecrawl.v.scrapes) |->
                       SeFirecrawlEntry(results.firecrawl.v.scrapes[k])])
             \o (IF results.firecrawl.v.extraction # Null
                   THEN <<"## Structured Extraction", "", BQ \o BQ \o BQ \o "json">>
                        \o JsonStringify(results.firecrawl.v.extraction.v)
                        \o <<BQ \o BQ \o BQ, "">>
                   ELSE <<>>)
        ELSE <<>>)
  \o (IF results.perplexity # Null /\ Truthy(results.perplexity.v.text)
        THEN <<"## Analysis (Perplexity)", "", results.perplexity.v.text, "">>
        ELSE <<>>)
  \o formatErrors(errs)

\* The three branches are started: exa and perplexity issue one request,
\* firecrawl one scrape request per URL.
SeInvoke ==
  /\ tpc = "idle"
  /\ Start(0)
  /\ \E urls \in UrlLists, prompt \in ExtractPrompts :
       /\ tool' = [NoTool EXCEPT !.name = "scrape_and_extract",
                                 !.urls = urls, !.extractPrompt = prompt]
       /\ req' = Issue({SeSite("exa"), SeSite("perplexity")}
                       \cup {Site("firecrawl", "scrape", k) :
                               k \in 1..Len(SliceUrls(urls))})
  /\ tpc' = "services"
  /\ UNCHANGED <<batchVars, loc, allErrors, report, lib>>

SeCallOk ==
  /\ tool.name = "scrape_and_extract"
  /\ \E p \in {"exa", "perplexity"} : \E res \in Responses(SeSite(p)) :
       BranchReturns(p, SeSite(p), res, IF p = "exa" THEN res.results ELSE res)
  /\ UNCHANGED <<batchVars, tpc, tool, loc, allErrors, report, lib>>

SeCallFail ==
  /\ tool.name = "scrape_and_extract"
  /\ \E p \in {"exa", "perplexity"} : BranchThrows(p, SeSite(p))
  /\ UNCHANGED <<batchVars, tpc, tool, loc, allErrors, report, lib>>

\* firecrawl.scrape(url, { formats }).catch(() => null) settles. When all
\* scrapes have settled the branch goes on: it issues the extraction when a
\* prompt is given, and returns otherwise.
SeScrapeSettle ==
  /\ tool.name = "scrape_and_extract"
  /\ tpc = "services"
  /\ ~Settled(0, "firecrawl")
  /\ \E s \in SeScrapeSites : \E out \in {Ok(res) : res \in ScrapeResponses} \cup {Failed} :
       /\ IsPending(s)
       /\ LET r2 == [req EXCEPT ![s] = out]
          IN IF \E t \in SeScrapeSites : r2[t].st = "pending"
               THEN req' = r2 /\ UNCHANGED engineVars
               ELSE IF Truthy(tool.extractPrompt)
                      THEN /\ req' = [s2 \in DOMAIN r2 \cup {SeExtractSite} |->
                                        IF s2 \in DOMAIN r2 THEN r2[s2] ELSE PendingR]
                           /\ UNCHANGED engineVars
                      ELSE /\ req' = r2
                           /\ OnFnResolve(0, "firecrawl",
                                          Value(SeFirecrawlValue(r2, Null)))
  /\ UNCHANGED <<batchVars, tpc, tool, loc, allErrors, report, lib>>

\* firecrawl.extract settles inside try/catch: the extraction is its data
\* when it succeeded with success set, and null otherwise.
SeExtractSettle ==
  /\ tool.name = "scrape_and_extract"
  /\ tpc = "services"
  /\ ~Settled(0, "firecrawl")
  /\ IsPending(SeExtractSite)
  /\ \E out \in {Ok(res) : res \in ExtractResponses} \cup {Failed} :
       /\ req' = [req EXCEPT ![SeExtractSite] = out]
       /\ OnFnResolve(0, "firecrawl",
            Value(SeFirecrawlValue(req,
                    IF out.st = "ok" /\ out.val.v.success
                      THEN out.val.v.data ELSE Null)))
  /\ UNCHANGED <<batchVars, tpc, tool, loc, allErrors, report, lib>>

SeJoin ==
  /\ tool.name = "scrape_and_extract"
  /\ tpc = "services"
  /\ Return(0)
  /\ allErrors' = allErrors \o errors[0]
  /\ report' = SeReport(AwaitedResults(0), allErrors \o errors[0])
  /\ tpc' = "returned"
  /\ UNCHANGED <<batchVars, tool, req, loc, lib>>

(***************************************************************************)
(* compare_offers                                                          *)
(***************************************************************************)
CoSite(p) == Site(p, "search", 0)
CoExtractSite == Site("firecrawl", "extract", 0)
CoAnalysisSite == Site("perplexity", "search", 1)
CoQuery == "headphones"

\* params.criteria ?? ["name", "price", "rating", "key_features"]
DefaultCriteria == <<"name", "price", "rating", "key_features">>
CoCriteria == IF tool.criteria = Null THEN DefaultCriteria ELSE tool.criteria.v

\* The values of the three branches
CoBranchValue(p, res) ==
  CASE p = "exa" ->
         [k \in 1..Len(res.results) |->
            [ExaToSearchResults(res)[k] EXCEPT !.publishedDate = Undefined]]
    [] p = "firecrawl" -> FirecrawlToSearchResults(res.data)
    [] p = "perplexity" ->
         [text |-> res.text, citations |-> CitationsToSearchResults(res.citations)]

\* allSearchResults
CoAllSearchResults(results) ==
  (IF results.exa # Null THEN results.exa.v ELSE <<>>)
  \o (IF results.firecrawl # Null THEN results.firecrawl.v ELSE <<>>)
  \o (IF results.perplexity # Null THEN results.perplexity.v.citations ELSE <<>>)

\* u.startsWith("perplexity://")
PseudoPrefix == <<"p","e","r","p","l","e","x","i","t","y",":","/","/">>
IsPseudoUrl(u) == StartsWith(Chars(u), PseudoPrefix)

\* merged.slice(0, 20).map((r) => r.url).filter(...)
TopUrlLimit == 20
CoTopUrlsUnfiltered(merged) ==
  [k \in 1..Min(TopUrlLimit, Len(merged)) |-> merged[k].url]
CoTopUrls(merged) ==
  SelectSeq([k \in 1..Min(TopUrlLimit, Len(merged)) |-> merged[k].url],
            LAMBDA u : ~IsPseudoUrl(u))

\* { ...item, key: value }
ObjSet(item, key, value) ==
  IF \E k \in 1..Len(item) : item[k][1] = key
    THEN [k \in 1..Len(item) |-> IF item[k][1] = key THEN <<key, value>> ELSE item[k]]
    ELSE Append(item, <<key, value>>)

\* extractedData after the extraction response: data is one object or an
\* array of objects
CoExtractedData(extracted, topUrls) ==
  IF extracted.success /\ extracted.data # Null
    THEN LET items == IF extracted.data.v.isArray THEN extracted.data.v.items
                      ELSE <<extracted.data.v.item>>
         IN [i \in 1..Len(items) |->
               ObjSet(ObjSet(items[i], "url",
                             IF i <= Len(topUrls) THEN topUrls[i] ELSE ""),
                      "source", "firecrawl-extract")]
    ELSE <<>>

\* `[Extract] ${e instanceof Error ? e.message : String(e)}`
ExtractMsg(e) == "[Extract] " \o ErrorText(e)

\* analysis before the second Perplexity call
CoFirstPass(results) ==
  IF results.perplexity # Null /\ Truthy(results.perplexity.v.text)
    THEN results.perplexity.v.text ELSE ""

\* analysis after the second Perplexity call has resolved with analysisRes
CoAnalysisFirstPassOnly(analysis, analysisRes) == analysis
CoAnalysis(analysis, analysisRes) ==
  IF Truthy(analysisRes.text) THEN analysisRes.text ELSE analysis

\* The lines of "## All Sources" (the dash of the source is written --)
CoSourceLines(merged) ==
  [i \in 1..Min(Len(merged), 50) |->
     ToString(i) \o ". [" \o merged[i].title \o "](" \o merged[i].url \o ") -- "
       \o SourcesBadge(merged[i])]

\* output.join("\n")
CoReport(merged, extractedData, analysis, errs) ==
  JoinNL(<<<<"# Offer Comparison: " \o CoQuery, "">>,
           <<"**Offers found:** " \o ToString(Len(merged))
               \o " | **Extracted data:** " \o ToString(Len(extractedData))
               \o " items", "">>>>
         \o (IF Len(extractedData) > 0
               THEN <<formatComparison(extractedData, CoCriteria)>> ELSE <<>>)
         \o (IF Truthy(analysis)
               THEN <<<<"", "## Analysis & Recommendations", "", analysis>>>>
               ELSE <<>>)
         \o <<<<"", "## All Sources", "">>>>
         \o [i \in 1..Len(CoSourceLines(merged)) |-> <<CoSourceLines(merged)[i]>>]
         \o <<formatErrors(errs)>>)

\* Responses of the providers to compare_offers. A citation may carry any
\* string as its URL; an extraction returns one object or an array of any
\* length.
CitPseudo == [url |-> "perplexity://synthesis", title |-> "Summary", snippet |-> ""]
CoResponses(p) ==
  IF p = "perplexity"
    THEN PerplexityResponses \cup {[text |-> "Synthesis.", citations |-> <<CitPseudo>>]}
    ELSE Responses(CoSite(p))
OfferA == <<<<"name", "A">>, <<"price", "10">>, <<"url", "https://shop.example/a">>>>
OfferB == <<<<"price", "12">>>>
CoExtractResponses ==
  {[success |-> TRUE, data |-> Value([isArray |-> TRUE, items |-> <<>>])],
   [success |-> TRUE, data |-> Value([isArray |-> TRUE, items |-> <<OfferA>>])],
   [success |-> TRUE, data |-> Value([isArray |-> TRUE, items |-> <<OfferA, OfferB>>])],
   [success |-> TRUE, data |-> Value([isArray |-> FALSE, item |-> OfferB])],
   [success |-> FALSE, data |-> Null]}
CoAnalysisResponses ==
  {[text |-> "", citations |-> <<>>], [text |-> "Ranking.", citations |-> <<>>]}
CriteriaParams == {Null, Value(<<"price">>)}

\* Step 1: the three branches issue their search requests
CoInvoke ==
  /\ tpc = "idle"
  /\ Start(0)
  /\ \E criteria \in CriteriaParams :
       tool' = [NoTool EXCEPT !.name = "compare_offers", !.criteria = criteria]
  /\ req' = Issue({CoSite(p) : p \in Providers})
  /\ tpc' = "services"
  /\ UNCHANGED <<batchVars, loc, allErrors, report, lib>>

CoCallOk ==
  /\ tool.name = "compare_offers"
  /\ \E p \in Providers : \E res \in CoResponses(p) :
       BranchReturns(p, CoSite(p), res, CoBranchValue(p, res))
  /\ UNCHANGED <<batchVars, tpc, tool, loc, allErrors, report, lib>>

CoCallFail ==
  /\ tool.name = "compare_offers"
  /\ \E p \in Providers : BranchThrows(p, CoSite(p))
  /\ UNCHANGED <<batchVars, tpc, tool, loc, allErrors, report, lib>>

\* parallelServices returns: the results are merged and ranked and, if
\* there is a URL to extract from, firecrawl.extract is called; with no URL
\* extractedData stays empty, step 3 issues no call and the report is
\* compiled.
CoJoin ==
  /\ tool.name = "compare_offers"
  /\ tpc = "services"
  /\ Return(0)
  /\ allErrors' = allErrors \o errors[0]
  /\ LET results == AwaitedResults(0)
         merged == rankByRelevance(mergeResults(CoAllSearchResults(results)))
         topUrls == CoTopUrls(merged)
     IN /\ loc' = [merged |-> merged, topUrls |-> topUrls,
                   extractedData |-> <<>>, analysis |-> CoFirstPass(results)]
        /\ IF Len(topUrls) > 0
             THEN /\ req' = Issue({CoExtractSite})
                  /\ tpc' = "extract"
                  /\ UNCHANGED report
             ELSE /\ report' = CoReport(merged, <<>>, CoFirstPass(results), allErrors')
                  /\ tpc' = "returned"
                  /\ UNCHANGED req
  /\ UNCHANGED <<batchVars, tool, lib>>

\* firecrawl.extract settles. A failure is pushed to allErrors. With
\* extracted items the second Perplexity call is issued, otherwise the
\* report is compiled.
CoExtractSettle ==
  /\ tool.name = "compare_offers"
  /\ tpc = "extract"
  /\ \E out \in {Ok(res) : res \in CoExtractResponses} \cup {Failed} :
       LET extractedData == IF out.st = "ok"
                              THEN CoExtractedData(out.val.v, loc.topUrls) ELSE <<>>
           r2 == [req EXCEPT ![CoExtractSite] = out]
       IN /\ allErrors' = IF out.st = "ok" THEN allErrors
                          ELSE Append(allErrors, ExtractMsg(ClientError(CoExtractSite)))
          /\ loc' = [loc EXCEPT !.extractedData = extractedData]
          /\ IF Len(extractedData) > 0
               THEN /\ req' = [s \in DOMAIN r2 \cup {CoAnalysisSite} |->
                                 IF s = CoAnalysisSite THEN PendingR ELSE r2[s]]
                    /\ tpc' = "analysis"
                    /\ UNCHANGED report
               ELSE /\ req' = r2
                    /\ report' = CoReport(loc.merged, extractedData, loc.analysis,
                                          allErrors')
                    /\ tpc' = "returned"
  /\ UNCHANGED <<engineVars, batchVars, tool, lib>>

\* The second Perplexity call settles: its text, if any, replaces the
\* analysis; a failure is ignored. The report is compiled.
CoAnalysisSettle ==
  /\ tool.name = "compare_offers"
  /\ tpc = "analysis"
  /\ \E out \in {Ok(res) : res \in CoAnalysisResponses} \cup {Failed} :
       LET analysis == IF out.st = "ok" THEN CoAnalysis(loc.analysis, out.val.v)
                       ELSE loc.analysis
       IN /\ req' = [req EXCEPT ![CoAnalysisSite] = out]
          /\ loc' = [loc EXCEPT !.analysis = analysis]
          /\ report' = CoReport(loc.merged, loc.extractedData, analysis, allErrors)
          /\ tpc' = "returned"
  /\ UNCHANGED <<engineVars, batchVars, tool, allErrors, lib>>

(***************************************************************************)
(* deep_research                                                           *)
(***************************************************************************)
DrTopic == "topic"

\* params.depth ?? "deep"
DrDepth(depth) == IF depth = Null THEN "deep" ELSE depth.v

\* params.focusAreas.slice(0, 5)
FocusAreaLimit == 5
DrAreas(focusAreas) == SubSeq(focusAreas, 1, Min(FocusAreaLimit, Len(focusAreas)))

\* The conditions of steps 2 and 3
DrRound2AnyDepth(depth, focusAreas) == Len(focusAreas) > 0
DrRound2Runs(depth, focusAreas) ==
  /\ DrDepth(depth) = "deep" \/ DrDepth(depth) = "exhaustive"
  /\ Len(focusAreas) > 0
DrRound3Runs(depth) == DrDepth(depth) = "exhaustive"

\* variations of step 3
DrVariations == <<DrTopic \o " analysis", DrTopic \o " comparison review",
                  DrTopic \o " latest trends">>

\* The engine invocation of focus area k is invocation k; step 1 is
\* invocation 0.
DrR1Site(p) == Site(p, IF p = "perplexity" THEN "deepResearch" ELSE "search", 0)
DrR2Site(p, k) == Site(p, "search", k)
DrR3Site(p, v) == Site(p, "search", FocusAreaLimit + v)
DrEngineSite(i, p) == IF i = 0 THEN DrR1Site(p) ELSE DrR2Site(p, i)
DrR3Providers == {"exa", "firecrawl"}
DrR3Sites(v) == {DrR3Site(p, v) : p \in DrR3Providers}

\* The mappings of steps 2 and 3 set fewer fields than those of step 1
DrExaStep2(res) ==
  [k \in 1..Len(res.results) |-> [ExaToSearchResults(res)[k] EXCEPT !.score = 0]]
DrExaStep3(res) ==
  [k \in 1..Len(res.results) |->
     LET r == res.results[k]
     IN [url |-> r.url, title |-> r.title,
         snippet |-> Or(SliceOpt(r.text, 300), ""),
         content |-> Undefined, publishedDate |-> r.publishedDate,
         source |-> "exa", score |-> 0]]
DrFirecrawlStep3(data) ==
  [k \in 1..Len(data) |->
     LET r == data[k]
     IN [url |-> r.url, title |-> Or(r.title, ""),
         snippet |-> Or(r.description, ""),
         content |-> Undefined, publishedDate |-> Undefined,
         source |-> "firecrawl", score |-> 0]]

\* The value a branch of an engine invocation returns
DrBranchValue(i, p, res) ==
  CASE p = "exa" -> IF i = 0 THEN ExaToSearchResults(res) ELSE DrExaStep2(res)
    [] p = "firecrawl" -> FirecrawlToSearchResults(res.data)
    [] p = "perplexity" -> CitationsToSearchResults(res.citations)

\* The section a Perplexity branch pushes before it returns
DrSection(i, area, res) ==
  <<(IF i = 0 THEN "## Perplexity Deep Research Analysis" ELSE "## Focus: " \o area),
    "", res.text>>

\* if (x.exa) allResults.push(...x.exa); ... firecrawl; ... perplexity
DrPushed(results) ==
  (IF results.exa # Null THEN results.exa.v ELSE <<>>)
  \o (IF results.firecrawl # Null THEN results.firecrawl.v ELSE <<>>)
  \o (IF results.perplexity # Null THEN results.perplexity.v ELSE <<>>)

\* What a variation of step 3 pushes once both of its requests have settled
DrVariationPushed(r2, v) ==
  (IF r2[DrR3Site("exa", v)].st = "ok"
     THEN DrExaStep3(r2[DrR3Site("exa", v)].val.v) ELSE <<>>)
  \o (IF r2[DrR3Site("firecrawl", v)].st = "ok"
        THEN DrFirecrawlStep3(r2[DrR3Site("firecrawl", v)].val.v.data) ELSE <<>>)

\* output.join("\n")
DrMaxResults == 100
DrReport(depth, focusAreas, allResults, sections, errs) ==
  LET merged == rankByRelevance(mergeResults(allResults))
  IN JoinNL(<<<<"# Deep Research: " \o DrTopic, "">>,
              <<"**Depth:** " \o DrDepth(depth)
                  \o " | **Total unique sources:** " \o ToString(Len(merged))
                  \o " | **Focus areas:** "
                  \o (IF Truthy(JoinStr(focusAreas, ", "))
                        THEN JoinStr(focusAreas, ", ") ELSE "general"), "">>>>
            \o sections
            \o <<<<"", "---", "">>,
                 formatSearchResults(merged, FALSE, DrMaxResults),
                 formatErrors(errs)>>)

\* The parameters of the invocations and the responses of the providers.
\* Every request has one response it can be answered with, or fails.
DepthParams == {Null, Value("standard"), Value("deep"), Value("exhaustive")}
RunFocusAreas == {<<>>, <<"pricing">>, <<"pricing", "safety">>}
DrResponse(s) ==
  CASE s[1] = "exa" /\ s[3] = 0 -> [results |-> <<ExaA>>]
    [] s[1] = "exa" /\ s[3] \in 1..FocusAreaLimit ->
         [results |-> <<[ExaA EXCEPT !.url = "https://A.com/z",
                                     !.title = "Z" \o ToString(s[3])]>>]
    [] s[1] = "exa" /\ s[3] > FocusAreaLimit ->
         [results |-> <<[ExaA EXCEPT !.url = SiteUrl(s[3] - FocusAreaLimit),
                                     !.title = "Site"]>>]
    [] s[1] = "firecrawl" /\ s[3] = 0 -> [data |-> <<FcA>>]
    [] s[1] = "firecrawl" /\ s[3] > 0 -> [data |-> <<>>]
    [] s[1] = "perplexity" /\ s[3] = 0 ->
         [text |-> "Synthesis.", citations |-> <<CitB>>]
    [] s[1] = "perplexity" /\ s[3] > 0 ->
         [text |-> "On area " \o ToString(s[3]) \o ".", citations |-> <<>>]

\* The executor awaits provider requests
DrRunning == tool.name = "deep_research" /\ tpc \in {"round1", "round2", "round3"}

\* Requests that have failed and engine timers that have rejected a race
Faults ==
  Cardinality({s \in DOMAIN req : req[s].st = "failed"})
    + Cardinality({i \in Inst : timer[i]["perplexity"] = "fired"})

\* The engine invocations of S start in one synchronous run
StartAll(S) ==
  /\ \A i \in S : ppc[i] = "idle"
  /\ ppc' = [i \in Inst |-> IF i \in S THEN "awaiting" ELSE ppc[i]]
  /\ fn' = [i \in Inst |-> IF i \in S THEN [p \in Providers |-> PendingP] ELSE fn[i]]
  /\ timer' = [i \in Inst |-> IF i \in S THEN [p \in Providers |-> "armed"] ELSE timer[i]]
  /\ slot' = [i \in Inst |-> IF i \in S THEN [p \in Providers |-> PendingP] ELSE slot[i]]
  /\ errors' = [i \in Inst |-> IF i \in S THEN <<>> ELSE errors[i]]
  /\ UNCHANGED ret

\* The executor runs up to the await of step 1
DrInvoke ==
  /\ tpc = "idle"
  /\ Start(0)
  /\ \E depth \in DepthParams : \E focusAreas \in RunFocusAreas :
       tool' = [NoTool EXCEPT !.name = "deep_research", !.depth = depth,
                              !.focusAreas = focusAreas]
  /\ req' = Issue({DrR1Site(p) : p \in Providers})
  /\ loc' = [allResults |-> <<>>, sections |-> <<>>]
  /\ tpc' = "round1"
  /\ UNCHANGED <<batchVars, allErrors, report, lib>>

\* The continuation of a settled Promise.all is a microtask: it runs before
\* the callback of any further answer or timer.
JoinContinues == \E i \in Inst : ppc[i] = "awaiting" /\ JoinReady(i)

\* A request of an engine invocation is answered and its branch runs to its
\* end; a Perplexity branch pushes its section, whether or not its race has
\* been settled by the timer.
DrCallOk ==
  /\ DrRunning
  /\ ~JoinContinues
  /\ \E i \in Inst : \E p \in Providers :
       LET s == DrEngineSite(i, p)
           res == DrResponse(s)
       IN /\ IsPending(s)
          /\ req' = [req EXCEPT ![s] = Ok(res)]
          /\ OnFnResolve(i, p, Value(DrBranchValue(i, p, res)))
          /\ loc' = IF p = "perplexity" /\ Truthy(res.text)
                      THEN [loc EXCEPT !.sections =
                              Append(@, DrSection(i, IF i = 0 THEN "" ELSE tool.focusAreas[i], res))]
                      ELSE loc
  /\ UNCHANGED <<batchVars, tpc, tool, allErrors, report, lib>>

\* A request of an engine invocation fails while its race is open
DrCallFail ==
  /\ DrRunning
  /\ ~JoinContinues
  /\ Faults < MaxFaults
  /\ \E i \in Inst : \E p \in Providers :
       /\ IsPending(DrEngineSite(i, p))
       /\ ~Settled(i, p)
       /\ req' = [req EXCEPT ![DrEngineSite(i, p)] = Failed]
       /\ OnFnReject(i, p, ClientError(DrEngineSite(i, p)))
  /\ UNCHANGED <<batchVars, tpc, tool, loc, allErrors, report, lib>>

\* Exa and Firecrawl answer within their 120 s, so that their timers fire
\* without effect; the 180 s timer of an open Perplexity race rejects it.
DrTimerFire ==
  /\ DrRunning
  /\ ~JoinContinues
  /\ Faults < MaxFaults
  /\ \E i \in Inst :
       /\ ppc[i] = "awaiting"
       /\ Settled(i, "exa") /\ Settled(i, "firecrawl") /\ ~Settled(i, "perplexity")
       /\ timer[i]["perplexity"] = "armed"
       /\ timer' = [timer EXCEPT ![i] = [p \in Providers |-> "fired"]]
       /\ slot' = [slot EXCEPT ![i]["perplexity"] =
                     Caught("perplexity", TimeoutError(TimeoutMs("perplexity")))]
       /\ errors' = [errors EXCEPT ![i] =
                       Append(@, CatchMsg("perplexity", TimeoutError(TimeoutMs("perplexity"))))]
  /\ UNCHANGED <<ppc, fn, ret>>
  /\ UNCHANGED <<batchVars, toolVars, lib>>

\* Step 1 returning and issuing the failed requests once more
DrJoinRetry ==
  /\ tool.name = "deep_research"
  /\ tpc = "round1"
  /\ Return(0)
  /\ loc' = [loc EXCEPT !.allResults = @ \o DrPushed(AwaitedResults(0))]
  /\ allErrors' = allErrors \o errors[0]
  /\ tpc' = "step2"
  /\ req' = [s \in DOMAIN req |-> IF req[s].st = "failed" THEN PendingR ELSE req[s]]
  /\ UNCHANGED <<batchVars, tool, report, lib>>
\* parallelServices of step 1 returns and its results are pushed; the
\* executor goes on to the condition of step 2 without awaiting.
DrJoin ==
  /\ tool.name = "deep_research"
  /\ tpc = "round1"
  /\ Return(0)
  /\ loc' = [loc EXCEPT !.allResults = @ \o DrPushed(AwaitedResults(0))]
  /\ allErrors' = allErrors \o errors[0]
  /\ tpc' = "step2"
  /\ UNCHANGED <<batchVars, tool, req, report, lib>>

\* Step 2: one engine invocation per focus area, all started in one run
DrStep2 ==
  /\ tool.name = "deep_research"
  /\ tpc = "step2"
  /\ IF DrRound2Runs(tool.depth, tool.focusAreas)
       THEN LET n == Len(DrAreas(tool.focusAreas))
            IN /\ StartAll(1..n)
               /\ req' = Issue({DrR2Site(p, k) : p \in Providers, k \in 1..n})
               /\ tpc' = "round2"
       ELSE /\ tpc' = "step3"
            /\ UNCHANGED <<engineVars, req>>
  /\ UNCHANGED <<batchVars, tool, loc, allErrors, report, lib>>

\* await Promise.race(focusPromises) in the place of Promise.all
DrFocusReturnFirst ==
  /\ tool.name = "deep_research"
  /\ tpc = "round2"
  /\ \E i \in 1..Len(DrAreas(tool.focusAreas)) :
       /\ Return(i)
       /\ loc' = [loc EXCEPT !.allResults = @ \o DrPushed(AwaitedResults(i))]
       /\ allErrors' = allErrors \o errors[i]
       /\ tpc' = "step3"
  /\ UNCHANGED <<batchVars, tool, req, report, lib>>
\* parallelServices of a focus area returns and its results are pushed;
\* with the last one await Promise.all(focusPromises) continues.
DrFocusReturn ==
  /\ tool.name = "deep_research"
  /\ tpc = "round2"
  /\ \E i \in 1..Len(DrAreas(tool.focusAreas)) :
       /\ Return(i)
       /\ loc' = [loc EXCEPT !.allResults = @ \o DrPushed(AwaitedResults(i))]
       /\ allErrors' = allErrors \o errors[i]
       /\ tpc' = IF \A j \in 1..Len(DrAreas(tool.focusAreas)) :
                      j # i => ppc[j] = "returned"
                   THEN "step3" ELSE "round2"
  /\ UNCHANGED <<batchVars, tool, req, report, lib>>

\* Step 3: the two requests of every variation are issued in one run
DrStep3 ==
  /\ tool.name = "deep_research"
  /\ tpc = "step3"
  /\ IF DrRound3Runs(tool.depth)
       THEN /\ req' = Issue(UNION {DrR3Sites(v) : v \in 1..Len(DrVariations)})
            /\ tpc' = "round3"
       ELSE /\ tpc' = "compile"
            /\ UNCHANGED req
  /\ UNCHANGED <<engineVars, batchVars, tool, loc, allErrors, report, lib>>

\* A request of a variation settles (a failure is replaced by null); when
\* both requests of the variation have settled their results are pushed,
\* and with the last variation await Promise.all(varPromises) continues.
DrVarSettle ==
  /\ tool.name = "deep_research"
  /\ tpc = "round3"
  /\ ~JoinContinues
  /\ \E v \in 1..Len(DrVariations) : \E p \in DrR3Providers :
       \E outcome \in {Ok(DrResponse(DrR3Site(p, v)))}
                        \cup (IF Faults < MaxFaults THEN {Failed} ELSE {}) :
         LET r2 == [req EXCEPT ![DrR3Site(p, v)] = outcome]
             Done(w) == \A s \in DrR3Sites(w) : r2[s].st # "pending"
         IN /\ IsPending(DrR3Site(p, v))
            /\ req' = r2
            /\ loc' = IF Done(v)
                        THEN [loc EXCEPT !.allResults = @ \o DrVariationPushed(r2, v)]
                        ELSE loc
            /\ tpc' = IF \A w \in 1..Len(DrVariations) : Done(w)
                        THEN "compile" ELSE "round3"
  /\ UNCHANGED <<engineVars, batchVars, tool, allErrors, report, lib>>

\* The report is compiled and returned
DrCompile ==
  /\ tool.name = "deep_research"
  /\ tpc = "compile"
  /\ report' = DrReport(tool.depth, tool.focusAreas, loc.allResults, loc.sections, allErrors)
  /\ tpc' = "returned"
  /\ UNCHANGED <<engineVars, batchVars, tool, req, loc, allErrors, lib>>

(***************************************************************************)
(* mass_summary                                                            *)
(***************************************************************************)
\* queryVariations.slice(0, 4)
QueryVariationsUsed == 4
\* params.maxSources ?? 150
DefaultMaxSources == 150
\* batchProcess(contentBatches, 3, ...), batches of 10 URLs, at most 60 URLs
ContentBatchSize == 10
ContentUrlLimit == 60
ContentConcurrency == 3

MsSearchSites(p) == {Site(p, "search", k) : k \in 1..QueryVariationsUsed}
MsPerplexitySite == Site("perplexity", "search", 0)

\* What variation k of a collection search has contributed: the response,
\* or the replacement { results: [] } / { data: [] } of its catch handler
MsContribution(r2, p, k) ==
  LET r == r2[Site(p, "search", k)]
  IN IF r.st = "ok"
       THEN (IF p = "exa" THEN r.val.v.results ELSE r.val.v.data)
       ELSE <<>>

\* results.flatMap(...)
MsBranchValue(r2, p) ==
  Flat([k \in 1..QueryVariationsUsed |-> MsContribution(r2, p, k)])

\* urlsWithTitles
MsUrlsWithTitles(results) ==
  (IF results.exa # Null
     THEN [k \in 1..Len(results.exa.v) |->
             LET r == results.exa.v[k]
             IN [url |-> r.url, title |-> r.title,
                 snippet |-> Or(SliceOpt(r.text, 300), "")]]
     ELSE <<>>)
  \o (IF results.firecrawl # Null
        THEN [k \in 1..Len(results.firecrawl.v) |->
                LET r == results.firecrawl.v[k]
                IN [url |-> r.url, title |-> Or(r.title, ""),
                    snippet |-> Or(r.description, "")]]
        ELSE <<>>)
  \o (IF results.perplexity # Null
        THEN [k \in 1..Len(results.perplexity.v.citations) |->
                LET c == results.perplexity.v.citations[k]
                IN [url |-> c.url, title |-> Or(c.title, ""),
                    snippet |-> Or(c.snippet, "")]]
        ELSE <<>>)

MsMaxSources(maxSources) ==
  IF maxSources = Null THEN DefaultMaxSources ELSE maxSources.v

\* deduplicateUrls(urls).slice(0, maxSources)
MsSourceList(urls, maxSources) ==
  LET uniqueUrls == deduplicateUrls(urls)
  IN SubSeq(uniqueUrls, 1, Min(MsMaxSources(maxSources), Len(uniqueUrls)))

\* trimmedUrls, of an invocation without maxSources
MsTrimmedUrls(urlsWithTitles) ==
  MsSourceList([k \in 1..Len(urlsWithTitles) |-> urlsWithTitles[k].url], Null)

\* contentBatches: slices of 10 of the first 60 URLs
MsContentBatches(trimmedUrls) ==
  LET n == Min(Len(trimmedUrls), ContentUrlLimit)
  IN [j \in 1..((n + ContentBatchSize - 1) \div ContentBatchSize) |->
        SubSeq(trimmedUrls, (j - 1) * ContentBatchSize + 1,
               Min(j * ContentBatchSize, Len(trimmedUrls)))]

\* The collection starts: four searches of exa, four of firecrawl and one
\* of perplexity are issued.
MsInvoke ==
  /\ tpc = "idle"
  /\ Start(0)
  /\ tool' = [NoTool EXCEPT !.name = "mass_summary"]
  /\ req' = Issue(MsSearchSites("exa") \cup MsSearchSites("firecrawl")
                  \cup {MsPerplexitySite})
  /\ tpc' = "services"
  /\ UNCHANGED <<batchVars, loc, allErrors, report, lib>>

\* A collection search of exa or firecrawl settles; its catch handler
\* replaces a failure by an empty response. When the four searches of the
\* branch have settled the branch returns the concatenation.
MsSearchSettle ==
  /\ tool.name = "mass_summary"
  /\ tpc = "services"
  /\ \E p \in {"exa", "firecrawl"} : \E s \in MsSearchSites(p) :
       \E out \in {Ok(res) : res \in Responses(s) \ {[results |-> <<>>], [data |-> <<>>]}}
                  \cup {Failed} :
         /\ ~Settled(0, p)
         /\ IsPending(s)
         /\ LET r2 == [req EXCEPT ![s] = out]
            IN /\ req' = r2
               /\ IF \E t \in MsSearchSites(p) : r2[t].st = "pending"
                    THEN UNCHANGED engineVars
                    ELSE OnFnResolve(0, p, Value(MsBranchValue(r2, p)))
  /\ UNCHANGED <<batchVars, tpc, tool, loc, allErrors, report, lib>>

MsPerplexityOk ==
  /\ tool.name = "mass_summary"
  /\ \E res \in Responses(MsPerplexitySite) :
       BranchReturns("perplexity", MsPerplexitySite, res,
                     [text |-> res.text, citations |-> res.citations])
  /\ UNCHANGED <<batchVars, tpc, tool, loc, allErrors, report, lib>>

MsPerplexityFail ==
  /\ tool.name = "mass_summary"
  /\ BranchThrows("perplexity", MsPerplexitySite)
  /\ UNCHANGED <<batchVars, tpc, tool, loc, allErrors, report, lib>>

\* parallelServices returns: the URLs are collected, deduplicated, trimmed
\* and cut into batches, and batchProcess is called on the batches.
MsJoin ==
  /\ tool.name = "mass_summary"
  /\ tpc = "services"
  /\ Return(0)
  /\ allErrors' = allErrors \o errors[0]
  /\ LET urlsWithTitles == MsUrlsWithTitles(AwaitedResults(0))
         trimmedUrls == MsTrimmedUrls(urlsWithTitles)
     IN /\ loc' = [urlsWithTitles |-> urlsWithTitles, trimmedUrls |-> trimmedUrls]
        /\ BatchEnter(MsContentBatches(trimmedUrls), ContentConcurrency)
  /\ tpc' = "batch"
  /\ UNCHANGED <<tool, req, report, lib>>

\* The processors of a batch are started: each issues exa.getContents
MsBatchLaunch ==
  /\ tool.name = "mass_summary"
  /\ tpc = "batch"
  /\ BatchLaunch
  /\ req' = Issue({Site("exa", "getContents", k) : k \in BatchRange(bI)})
  /\ UNCHANGED <<engineVars, tpc, tool, loc, allErrors, report, lib>>

\* exa.getContents(batch, ...).catch(() => null) settles: the processor
\* resolves with the response, or with null
MsContentsSettle ==
  /\ tool.name = "mass_summary"
  /\ tpc = "batch"
  /\ \E k \in DOMAIN bItems :
       \E out \in {Ok(res) : res \in ExaSearchResponses} \cup {Failed} :
         /\ IsPending(Site("exa", "getContents", k))
         /\ req' = [req EXCEPT ![Site("exa", "getContents", k)] = out]
         /\ OnProcResolve(k, out.val)
  /\ UNCHANGED <<engineVars, tpc, tool, loc, allErrors, report, lib>>

MsBatchJoin ==
  /\ tool.name = "mass_summary"
  /\ tpc = "batch"
  /\ BatchJoin
  /\ UNCHANGED <<engineVars, toolVars, lib>>

\* batchProcess returns the object { results, errors }. The executor
\* iterates over it with for...of; the object is not iterable, so the
\* statement throws a TypeError that nothing catches.
MsBatchReturn ==
  /\ tool.name = "mass_summary"
  /\ tpc = "batch"
  /\ BatchReturn
  /\ tpc' = "raised"
  /\ UNCHANGED <<engineVars, tool, req, loc, allErrors, report, lib>>

\* A timer of the engine invocation fires while the tool awaits it
ToolTimerFire ==
  /\ tpc = "services"
  /\ ~FsSkipDue
  /\ \E p \in Providers : TimerFire(0, p)
  /\ UNCHANGED <<batchVars, tpc, tool, req, loc, allErrors, report, lib>>

(***************************************************************************)
(* Spec: one invocation of parallelServices with arbitrary provider calls. *)
(***************************************************************************)
Init == EngineInit /\ BatchIdle /\ ToolIdle /\ LibIdle

PsStart == Start(0) /\ UNCHANGED <<batchVars, toolVars, lib>>
FnResolve ==
  \E p \in Providers, v \in Values :
    OnFnResolve(0, p, v) /\ UNCHANGED <<batchVars, toolVars, lib>>
FnReject ==
  \E p \in Providers, e \in Thrown :
    OnFnReject(0, p, e) /\ UNCHANGED <<batchVars, toolVars, lib>>
PsTimerFire == \E p \in Providers : TimerFire(0, p) /\ UNCHANGED <<batchVars, toolVars, lib>>
PsReturn == Return(0) /\ UNCHANGED <<batchVars, toolVars, lib>>

Next ==
  \/ PsStart
  \/ FnResolve
  \/ FnReject
  \/ PsTimerFire
  \/ PsReturn

Spec == Init /\ [][Next]_vars

\* Timers fire and the continuation of the await runs; provider calls may
\* never settle.
FairSpec ==
  /\ Spec
  /\ WF_vars(PsStart)
  /\ WF_vars(PsTimerFire)
  /\ WF_vars(PsReturn)

(***************************************************************************)
(* SpecBatch: one invocation of batchProcess on an arbitrary item list     *)
(* with a batch size of at least 1 and arbitrary processor calls.          *)
(***************************************************************************)
ItemLists == UNION {[1..n -> Items] : n \in 0..MaxItems}

InitBatch == EngineInit /\ BatchIdle /\ ToolIdle /\ LibIdle

BpCall ==
  \E items \in ItemLists, batchSize \in 1..MaxBatchSize :
    BatchEnter(items, batchSize) /\ UNCHANGED <<engineVars, toolVars, lib>>

BpLaunch == BatchLaunch /\ UNCHANGED <<engineVars, toolVars, lib>>
BpResolve ==
  \E k \in 1..MaxItems :
    /\ k \in DOMAIN bItems
    /\ OnProcResolve(k, ProcValue(bItems[k]))
    /\ UNCHANGED <<engineVars, toolVars, lib>>
BpReject ==
  \E k \in 1..MaxItems, e \in Thrown :
    OnProcReject(k, e) /\ UNCHANGED <<engineVars, toolVars, lib>>
BpJoin == BatchJoin /\ UNCHANGED <<engineVars, toolVars, lib>>
BpReturn == BatchReturn /\ UNCHANGED <<engineVars, toolVars, lib>>

NextBatch ==
  \/ BpCall
  \/ BpLaunch
  \/ BpResolve
  \/ BpReject
  \/ BpJoin
  \/ BpReturn

SpecBatch == InitBatch /\ [][NextBatch]_vars

\* The loop runs on, the continuation of the await runs, and every
\* processor call that has been made settles.
FairBatch ==
  /\ SpecBatch
  /\ WF_vars(BpLaunch)
  /\ WF_vars(BpResolve \/ BpReject)
  /\ WF_vars(BpJoin)
  /\ WF_vars(BpReturn)

(***************************************************************************)
(* SpecTools: one invocation of deep_search, find_similar or               *)
(* scrape_and_extract with arbitrary provider behaviour.                   *)
(***************************************************************************)
InitTools == EngineInit /\ BatchIdle /\ ToolIdle /\ LibIdle

NextTools ==
  \/ DsInvoke
  \/ DsCallOk
  \/ DsCallFail
  \/ DsJoin
  \/ FsInvoke
  \/ FsStep1Settle
  \/ FsFirecrawlSkips
  \/ FsCallOk
  \/ FsCallFail
  \/ FsJoin
  \/ SeInvoke
  \/ SeCallOk
  \/ SeCallFail
  \/ SeScrapeSettle
  \/ SeExtractSettle
  \/ SeJoin
  \/ ToolTimerFire

SpecTools == InitTools /\ [][NextTools]_vars

\* parallelServices can return to the executor, which then runs on to its
\* next await or to its end
JoinDue ==
  /\ tpc = "services"
  /\ ppc[0] = "awaiting"
  /\ JoinRejected(0) \/ JoinReady(0)

\* Timers fire and continuations run (a continuation that is due is not
\* postponed for ever); provider requests may never settle.
FairTools ==
  /\ SpecTools
  /\ WF_vars(ToolTimerFire)
  /\ WF_vars(FsFirecrawlSkips)
  /\ []<>(~JoinDue)

(***************************************************************************)
(* SpecMass: one invocation of mass_summary with arbitrary provider        *)
(* behaviour.                                                              *)
(***************************************************************************)
NextMass ==
  \/ MsInvoke
  \/ MsSearchSettle
  \/ MsPerplexityOk
  \/ MsPerplexityFail
  \/ ToolTimerFire
  \/ MsJoin
  \/ MsBatchLaunch
  \/ MsContentsSettle
  \/ MsBatchJoin
  \/ MsBatchReturn

SpecMass == InitTools /\ [][NextMass]_vars

(***************************************************************************)
(* SpecMerge: direct calls of mergeResults on arbitrary lists of           *)
(* SearchResult, the loop taken one item at a time.                        *)
(***************************************************************************)
MergeUrls == {"https://a.com/x", "http://www.a.com/x/", "https://b.com/y"}
Scores == {0, 2}

\* A SearchResult. An absent score is 0 (it is read as r.score || 0) and
\* only the results of Exa carry a score; Perplexity delivers its one
\* synthesis record; the snippet differs in length
\* from provider to provider and only Firecrawl delivers content.
SearchResultOf(url, source, score) ==
  [url |-> url, title |-> "T", snippet |-> "snippet by " \o source,
   content |-> IF source = "firecrawl" THEN "markdown" ELSE Undefined,
   publishedDate |-> Undefined, source |-> source, score |-> score]
SearchResults ==
  {SearchResultOf(url, "exa", score) : url \in MergeUrls, score \in Scores}
  \cup {SearchResultOf(url, "firecrawl", 0) : url \in MergeUrls}
  \cup {SearchResultOf("perplexity://synthesis", "perplexity", 0)}
ResultLists == UNION {[1..n -> SearchResults] : n \in 0..MaxResults}

\* mergeResults(results) is entered: map = new Map()
MergeCall ==
  \E results \in ResultLists :
    /\ lib = NoCall
    /\ lib' = [fn |-> "mergeResults", results |-> results, i |-> 0,
               map |-> <<>>, out |-> Null]
    /\ UNCHANGED <<engineVars, batchVars, toolVars>>

\* One pass of for (const r of results)
MergeIter ==
  /\ lib.fn = "mergeResults"
  /\ lib.out = Null
  /\ lib.i < Len(lib.results)
  /\ lib' = [lib EXCEPT !.i = lib.i + 1,
                        !.map = MergeStep(lib.map, lib.results[lib.i + 1])]
  /\ UNCHANGED <<engineVars, batchVars, toolVars>>

\* return Array.from(map.values())
MergeReturn ==
  /\ lib.fn = "mergeResults"
  /\ lib.out = Null
  /\ lib.i = Len(lib.results)
  /\ lib' = [lib EXCEPT !.out = Value(lib.map)]
  /\ UNCHANGED <<engineVars, batchVars, toolVars>>

NextMerge ==
  \/ MergeCall
  \/ MergeIter
  \/ MergeReturn

SpecMerge == Init /\ [][NextMerge]_vars

(***************************************************************************)
(* SpecFields: direct calls of mergeResults on lists of SearchResult that  *)
(* differ in title, snippet, content and publishedDate, the loop taken one *)
(* item at a time.                                                         *)
(***************************************************************************)
FieldItem(url, title, text, publishedDate) ==
  [url |-> url, title |-> title, snippet |-> text, content |-> text,
   publishedDate |-> publishedDate, source |-> "exa", score |-> 0]

\* Items of one page under two spellings, with no text, with texts of equal
\* and of greater length, with and without a title and a date; an item
\* with an empty snippet and no content field; an item of another page
FieldItems ==
  {FieldItem("https://a.com/x", "T1", "", Undefined),
   FieldItem("http://www.a.com/x/", "T2", "ab", "2024-01-02"),
   FieldItem("https://a.com/x", "T3", "cd", "2025-03-04"),
   FieldItem("http://www.a.com/x/", "", "abc", Undefined),
   [FieldItem("https://a.com/x", "T5", "", "2023-05-06") EXCEPT !.content = Undefined],
   FieldItem("https://b.com/y", "T6", "cd", Undefined)}

MergeFieldsCall ==
  \E n \in 0..MaxFieldItems : \E results \in [1..n -> FieldItems] :
    /\ lib = NoCall
    /\ lib' = [fn |-> "mergeResults", results |-> results, i |-> 0,
               map |-> <<>>, out |-> Null]
    /\ UNCHANGED <<engineVars, batchVars, toolVars>>

NextFields ==
  \/ MergeFieldsCall
  \/ MergeIter
  \/ MergeReturn

SpecFields == Init /\ [][NextFields]_vars

(***************************************************************************)
(* SpecNormalize: direct calls of normalizeUrl on URLs of the form         *)
(* [scheme://][www.]*host[/path][/]*[?query][#fragment], each followed by  *)
(* a call on the key it returned.                                          *)
(***************************************************************************)
Schemes == {<<>>, <<"h","t","t","p",":","/","/">>, <<"h","t","t","p","s",":","/","/">>}
Hosts == {<<"a",".","c","o","m">>, <<"A",".","c","o","m">>}
Paths == {<<>>, <<"/","x">>, <<"/","X">>}
Queries == {<<>>, <<"?","q">>}
Fragments == {<<>>, <<"#","f">>}
UrlParts ==
  [scheme : Schemes, www : 0..MaxWww, host : Hosts, path : Paths,
   slashes : 0..MaxSlashes, query : Queries, frag : Fragments]

RECURSIVE Repeat(_, _)
Repeat(s, n) == IF n = 0 THEN <<>> ELSE s \o Repeat(s, n - 1)

\* The characters of the URL with these parts
Render(u) ==
  u.scheme \o Repeat(<<"w","w","w",".">>, u.www) \o u.host \o u.path
    \o Repeat(<<"/">>, u.slashes) \o u.query \o u.frag

\* normalizeUrl(url)
NormCall ==
  \E u \in UrlParts :
    /\ lib = NoCall
    /\ lib' = [fn |-> "normalizeUrl", parts |-> u, url |-> Render(u),
               out |-> NormalizeChars(Render(u)), again |-> Null]
    /\ UNCHANGED <<engineVars, batchVars, toolVars>>

\* normalizeUrl(key) on the key the first call returned
NormAgain ==
  /\ lib.fn = "normalizeUrl"
  /\ lib.again = Null
  /\ lib' = [lib EXCEPT !.again = Value(NormalizeChars(lib.out))]
  /\ UNCHANGED <<engineVars, batchVars, toolVars>>

NextNormalize ==
  \/ NormCall
  \/ NormAgain

SpecNormalize == Init /\ [][NextNormalize]_vars

(***************************************************************************)
(* SpecRank: direct calls of rankByRelevance on arbitrary lists of         *)
(* MergedResult.                                                           *)
(***************************************************************************)
\* The k-th MergedResult of a list, found by the first n providers, with
\* relevanceScore s
MergedOf(k, n, s) ==
  [url |-> SiteUrl(k),
   normalizedUrl |-> "site" \o ToString(k) \o ".com",
   title |-> "T", snippet |-> "", content |-> Undefined,
   publishedDate |-> Undefined,
   sources |-> SubSeq(<<"exa", "firecrawl", "perplexity">>, 1, n),
   relevanceScore |-> s]
RankKeys == (1..3) \X (1..2)
\* The list of MergedResult with the source counts and scores f
MergedList(f) == [k \in DOMAIN f |-> MergedOf(k, f[k][1], f[k][2])]

\* rankByRelevance(results): results.sort(...) returns the sorted array
RankCall ==
  \E n \in 0..MaxRanked : \E f \in [1..n -> RankKeys] :
    /\ lib = NoCall
    /\ lib' = [fn |-> "rankByRelevance", results |-> MergedList(f),
               out |-> rankByRelevance(MergedList(f))]
    /\ UNCHANGED <<engineVars, batchVars, toolVars>>

NextRank == RankCall

SpecRank == Init /\ [][NextRank]_vars

(***************************************************************************)
(* SpecFormat: direct calls of formatSearchResults and formatComparison.   *)
(***************************************************************************)
MaxResultsOptions == {Null} \cup {Value(n) : n \in 0..MaxFormatted}

\* formatSearchResults(results, { showContent, maxResults })
FormatSearchResultsCall ==
  \E n \in 0..MaxFormatted : \E f \in [1..n -> RankKeys] :
    \E showContent \in BOOLEAN, maxResults \in MaxResultsOptions :
      /\ lib = NoCall
      /\ lib' = [fn |-> "formatSearchResults", results |-> MergedList(f),
                 showContent |-> showContent, maxResults |-> maxResults,
                 out |-> formatSearchResults(MergedList(f), showContent,
                                             MaxOption(maxResults, MergedList(f)))]
    /\ UNCHANGED <<engineVars, batchVars, toolVars>>

Offers ==
  {<<<<"name", "A">>, <<"price", "10">>, <<"url", "https://a.com/x">>>>,
   <<<<"price", "12">>, <<"source", "exa">>>>}
OfferLists == UNION {[1..n -> Offers] : n \in 0..MaxFormatted}
CriteriaLists == {<<>>, <<"price">>, <<"name", "price">>}

\* formatComparison(items, criteria)
FormatComparisonCall ==
  \E items \in OfferLists, criteria \in CriteriaLists :
    /\ lib = NoCall
    /\ lib' = [fn |-> "formatComparison", items |-> items, criteria |-> criteria,
               out |-> formatComparison(items, criteria)]
    /\ UNCHANGED <<engineVars, batchVars, toolVars>>

NextFormat ==
  \/ FormatSearchResultsCall
  \/ FormatComparisonCall

SpecFormat == Init /\ [][NextFormat]_vars

(***************************************************************************)
(* SpecDeep: one invocation of deep_research, for every depth and up to    *)
(* two focus areas, with provider requests that are answered, fail (at     *)
(* most MaxFaults of them) or are never answered; or the conditions of its *)
(* steps for a longer list of focus areas.                                 *)
(***************************************************************************)
AreaList(n) == [k \in 1..n |-> "area" \o ToString(k)]

\* Which steps an invocation runs, and for which focus areas
DrPlanCall ==
  \E depth \in DepthParams : \E n \in 0..MaxAreas :
    /\ lib = NoCall
    /\ tpc = "idle"
    /\ lib' = [fn |-> "deep_research", depth |-> depth, focusAreas |-> AreaList(n),
               step2 |-> DrRound2Runs(depth, AreaList(n)),
               areas |-> IF DrRound2Runs(depth, AreaList(n))
                           THEN DrAreas(AreaList(n)) ELSE <<>>,
               step3 |-> DrRound3Runs(depth)]
    /\ UNCHANGED <<engineVars, batchVars, toolVars>>

NextDeep ==
  \/ DrInvoke /\ lib = NoCall
  \/ DrCallOk
  \/ DrCallFail
  \/ DrTimerFire
  \/ DrJoin
  \/ DrStep2
  \/ DrFocusReturn
  \/ DrStep3
  \/ DrVarSettle
  \/ DrCompile
  \/ DrPlanCall

SpecDeep == InitTools /\ [][NextDeep]_vars

(***************************************************************************)
(* SpecOffers: one invocation of compare_offers with arbitrary provider    *)
(* behaviour, or the selection of the extraction targets from an arbitrary *)
(* ranked list.                                                            *)
(***************************************************************************)
\* A ranked list of n records, the one at position j (if any) under a
\* perplexity:// URL
RankedWithPseudo(n, j) ==
  [k \in 1..n |-> IF k = j THEN [MergedOf(k, 1, 1) EXCEPT !.url = "perplexity://synthesis"]
                  ELSE MergedOf(k, 1, 1)]

CoTopUrlsCall ==
  \E n \in 0..MaxMerged : \E j \in 0..n :
    /\ lib = NoCall
    /\ tpc = "idle"
    /\ lib' = [fn |-> "topUrls", merged |-> RankedWithPseudo(n, j),
               out |-> CoTopUrls(RankedWithPseudo(n, j))]
    /\ UNCHANGED <<engineVars, batchVars, toolVars>>

NextOffers ==
  \/ CoInvoke /\ lib = NoCall
  \/ CoCallOk
  \/ CoCallFail
  \/ ToolTimerFire
  \/ CoJoin
  \/ CoExtractSettle
  \/ CoAnalysisSettle
  \/ CoTopUrlsCall

SpecOffers == InitTools /\ [][NextOffers]_vars

(***************************************************************************)
(* SpecClamp: the statements of deep_search and of scrape_and_extract that *)
(* bound the size of a request, and those of mass_summary that build its   *)
(* list of sources, on arbitrary parameters.                               *)
(***************************************************************************)
\* params.numResults: absent, or any integer; config.defaultNumResults ?? 20
NumResultsParams == {Null} \cup {Value(n) : n \in (0 - MaxCount)..MaxCount}
DefaultNumResults == 20
ConfiguredDefaults == {DefaultNumResults, MaxNumResults + DefaultNumResults}
GivenUrls(n) == [k \in 1..n |-> "https://site" \o ToString(k) \o ".com"]

\* deep_search up to its search requests
DsClampCall ==
  \E numResults \in NumResultsParams, defaultNumResults \in ConfiguredDefaults :
    /\ lib = NoCall
    /\ lib' = [fn |-> "deep_search", numResults |-> numResults,
               defaultNumResults |-> defaultNumResults,
               requested |-> [p \in Providers |->
                  DsRequested(p, DsNumResults(numResults, defaultNumResults))]]
    /\ UNCHANGED <<engineVars, batchVars, toolVars>>

\* scrape_and_extract up to its requests: urls is what they are issued for
SeSliceCall ==
  \E n \in 0..MaxGiven :
    /\ lib = NoCall
    /\ lib' = [fn |-> "scrape_and_extract", given |-> GivenUrls(n),
               urls |-> SliceUrls(GivenUrls(n))]
    /\ UNCHANGED <<engineVars, batchVars, toolVars>>

\* URLs that are collected more than once, in several spellings
DupUrls == {"https://a.com/x", "http://www.a.com/x/", "https://b.com/y",
            "https://A.com/z"}

\* The value of a provider that found the pages urls, null if it failed
ExaFound(urls) ==
  IF urls = <<>> THEN Null
  ELSE Value([k \in 1..Len(urls) |-> [ExaA EXCEPT !.url = urls[k]]])
FirecrawlFound(urls) ==
  IF urls = <<>> THEN Null
  ELSE Value([k \in 1..Len(urls) |-> [url |-> urls[k], title |-> "",
                                       description |-> "found"]])
PerplexityFound(urls) ==
  IF urls = <<>> THEN Null
  ELSE Value([text |-> "",
              citations |-> [k \in 1..Len(urls) |-> [CitB EXCEPT !.url = urls[k]]]])

\* mass_summary from the value of parallelServices to trimmedUrls: the
\* first a of the pages were found by Exa, the next by Firecrawl up to the
\* b-th, the rest are citations of Perplexity
MsSourcesCall ==
  \E n \in 0..MaxCollected : \E urls \in [1..n -> DupUrls] :
    \E a \in 0..n : \E b \in a..n :
      \E maxSources \in {Null} \cup {Value(m) : m \in 0..MaxCollected} :
        LET results == [exa |-> ExaFound(SubSeq(urls, 1, a)),
                        firecrawl |-> FirecrawlFound(SubSeq(urls, a + 1, b)),
                        perplexity |-> PerplexityFound(SubSeq(urls, b + 1, n))]
            urlsWithTitles == MsUrlsWithTitles(results)
            collected == [k \in 1..Len(urlsWithTitles) |-> urlsWithTitles[k].url]
        IN /\ lib = NoCall
           /\ lib' = [fn |-> "mass_summary", found |-> urls, maxSources |-> maxSources,
                      collected |-> collected,
                      uniqueUrls |-> deduplicateUrls(collected),
                      trimmedUrls |-> MsSourceList(collected, maxSources)]
           /\ UNCHANGED <<engineVars, batchVars, toolVars>>

NextClamp ==
  \/ DsClampCall
  \/ SeSliceCall
  \/ MsSourcesCall

SpecClamp == Init /\ [][NextClamp]_vars

(***************************************************************************)
(* Claims about parallelServices and safeCall (checked under Spec, the     *)
(* liveness claim under FairSpec).                                         *)
(***************************************************************************)
\* The error strings parallelServices may hold for provider p, written out
\* with the prefix and the timeout bound the documentation states.
ErrorDetails(bound) ==
  {e.text : e \in Thrown} \cup {"Timeout after " \o bound \o "ms"}
ExpectedErrors(p) ==
  CASE p = "exa" -> {"[Exa] " \o d : d \in ErrorDetails("120000")}
    [] p = "firecrawl" -> {"[Firecrawl] " \o d : d \in ErrorDetails("120000")}
    [] p = "perplexity" -> {"[Perplexity] " \o d : d \in ErrorDetails("180000")}
ErrorsFor(i, p) == {k \in 1..Len(errors[i]) : errors[i][k] \in ExpectedErrors(p)}

\* C1: parallelServices never raises; in the returned ParallelResults a
\* failed provider has a null slot and exactly one error string carrying its
\* prefix, a successful provider has its value and no error string, and
\* errors holds nothing else. A provider whose call threw (or never settled)
\* before its timer could matter is failed; one whose call resolved while
\* its timer was still armed is successful.
C1_NeverRaises ==
  /\ ppc[0] # "raised"
  /\ ppc[0] = "returned" =>
       /\ \A p \in Providers :
            /\ ret[0][p] = Null => Cardinality(ErrorsFor(0, p)) = 1
            /\ ret[0][p] # Null => ErrorsFor(0, p) = {} /\ ret[0][p] \in Values
            /\ fn[0][p].st \in {"rejected", "pending"} => ret[0][p] = Null
            /\ (fn[0][p].st = "resolved" /\ timer[0][p] = "armed")
                 => ret[0][p] = fn[0][p].val
            /\ (fn[0][p].st = "rejected" /\ timer[0][p] = "armed")
                 => \E k \in ErrorsFor(0, p) :
                      \E tag \in {"[Exa] ", "[Firecrawl] ", "[Perplexity] "} :
                        errors[0][k] = tag \o fn[0][p].val
       /\ \A k \in 1..Len(errors[0]) : \E p \in Providers : k \in ErrorsFor(0, p)

\* All three providers failed and the invocation returned normally.
C1_Witness ==
  /\ ppc[0] = "returned"
  /\ \A p \in Providers : ret[0][p] = Null
  /\ Len(errors[0]) = 3
  /\ fn[0]["exa"].st = "rejected"
  /\ fn[0]["firecrawl"].st = "pending"

\* C2: all three provider calls are launched before any branch settles, the
\* invocation does not return before all three branches have settled, and a
\* step that settles one branch leaves the other two branches as they were.
C2_State ==
  /\ \A p \in Providers :
       (Settled(0, p) \/ fn[0][p].st # "notCalled")
         => \A q \in Providers : fn[0][q].st # "notCalled"
  /\ ppc[0] \in {"returned", "raised"} => \A p \in Providers : Settled(0, p)
C2_Step ==
  \A p \in Providers :
    slot'[0][p] # slot[0][p] =>
      /\ ppc'[0] = ppc[0]
      /\ \A q \in Providers \ {p} :
           slot'[0][q] = slot[0][q] /\ fn'[0][q] = fn[0][q]
C2_WaitsForAll == [](C2_State) /\ [][C2_Step]_vars

\* One branch has failed while the two others are still in flight.
C2_Witness ==
  /\ ppc[0] = "awaiting"
  /\ slot[0]["firecrawl"].val = Null /\ Settled(0, "firecrawl")
  /\ ~Settled(0, "exa") /\ fn[0]["exa"].st = "pending"
  /\ ~Settled(0, "perplexity") /\ fn[0]["perplexity"].st = "pending"

\* C3: each provider call races its own timer (120000 ms for Exa and
\* Firecrawl, 180000 ms for Perplexity). When the timer of an unsettled
\* branch fires, the branch ends as after a thrown error: its slot is null
\* and "[Provider] Timeout after <bound>ms" is appended to errors; the slots
\* of the other providers are untouched.
TimeoutLine(p) ==
  CASE p = "exa" -> "[Exa] Timeout after 120000ms"
    [] p = "firecrawl" -> "[Firecrawl] Timeout after 120000ms"
    [] p = "perplexity" -> "[Perplexity] Timeout after 180000ms"
C3_Step ==
  \A p \in Providers :
    (timer[0][p] = "armed" /\ timer'[0][p] = "fired") =>
      /\ \A q \in Providers \ {p} : slot'[0][q] = slot[0][q]
      /\ IF slot[0][p].st = "pending"
           THEN /\ slot'[0][p] = [st |-> "fulfilled", val |-> Null]
                /\ errors'[0] = Append(errors[0], TimeoutLine(p))
           ELSE slot'[0][p] = slot[0][p] /\ errors'[0] = errors[0]
C3_State ==
  \A p \in Providers :
    (fn[0][p].st = "pending" /\ timer[0][p] = "fired") =>
      /\ slot[0][p] = [st |-> "fulfilled", val |-> Null]
      /\ \E k \in 1..Len(errors[0]) : errors[0][k] = TimeoutLine(p)
C3_TimeoutIsFailure == [](C3_State) /\ [][C3_Step]_vars

\* The Perplexity call hung and timed out; the two others succeeded.
C3_Witness ==
  /\ ppc[0] = "returned"
  /\ errors[0] = <<"[Perplexity] Timeout after 180000ms">>
  /\ ret[0].exa \in Values /\ ret[0].firecrawl \in Values
  /\ ret[0].perplexity = Null

\* C4: with timers firing, every started invocation returns; it can return
\* as soon as all three branches have settled, whatever the state of the
\* timers, and a call that never settles is ended by its timer.
C4_EventuallyReturns ==
  /\ [](ppc[0] = "awaiting" /\ (\A p \in Providers : Settled(0, p))
          => ENABLED PsReturn)
  /\ (ppc[0] = "awaiting") ~> (ppc[0] = "returned")

\* Returned while the Exa call never settled (ended by its timer) and the
\* Perplexity timer had not expired.
C4_Witness ==
  /\ ppc[0] = "returned"
  /\ fn[0]["exa"].st = "pending"
  /\ timer[0]["perplexity"] = "armed"

\* C5: each slot of the returned ParallelResults holds the outcome of the
\* call passed under the same name: a non-null slot is the value that call
\* resolved with, a null slot belongs to a call that threw or timed out.
C5_SlotsByName ==
  ppc[0] = "returned" =>
    \A p \in Providers :
      /\ ret[0][p] # Null => fn[0][p].st = "resolved" /\ ret[0][p] = fn[0][p].val
      /\ ret[0][p] = Null => fn[0][p].st = "rejected" \/ timer[0][p] = "fired"
      /\ (fn[0][p].st = "resolved" /\ timer[0][p] = "armed")
           => ret[0][p] = fn[0][p].val

\* Perplexity failed first, Exa failed after it, Firecrawl succeeded: the
\* completion order differs from the order of the names.
C5_Witness ==
  /\ ppc[0] = "returned"
  /\ errors[0] = <<"[Perplexity] boom", "[Exa] boom">>
  /\ ret[0].firecrawl = Value("v2") /\ ret[0].exa = Null /\ ret[0].perplexity = Null

(***************************************************************************)
(* Claims about batchProcess (checked under SpecBatch).                    *)
(***************************************************************************)
\* C10: when batchProcess returns, results has the length of items and
\* results[k] is the value processor(items[k]) resolved with, or null when
\* that call failed, whatever the batch size and the order in which the
\* calls of a batch settled.
C10_OrderPreserved ==
  bpc = "done" =>
    /\ Len(bResults) = Len(bItems)
    /\ \A k \in 1..Len(bItems) :
         /\ bCalls[k].st = "resolved" => bResults[k] = Value("f(" \o bItems[k] \o ")")
         /\ bCalls[k].st = "rejected" => bResults[k] = Null
         /\ bCalls[k].st \in {"resolved", "rejected"}

\* Four items in batches of three; the second item failed and the others
\* succeeded.
C10_Witness ==
  /\ bpc = "done"
  /\ bItems = <<"a", "b", "b", "a">>
  /\ bSize = 3
  /\ bResults = <<Value("f(a)"), Null, Value("f(b)"), Value("f(a)")>>
  /\ Len(bErrors) = 1

\* The processor calls in flight, and the 0-based number of the batch of
\* position k
InFlight == {k \in DOMAIN bCalls : bCalls[k].st = "pending"}
BatchOf(k) == (k - 1) \div bSize

\* C11: batchProcess runs its batches strictly one after another: a
\* processor call of a later batch has started only when every processor
\* call of every earlier batch has settled, and at most batchSize processor
\* calls are in flight at any time.
C11_BatchesInSequence ==
  /\ Cardinality(InFlight) <= bSize
  /\ \A k \in DOMAIN bCalls, j \in DOMAIN bCalls :
       (bCalls[k].st # "notCalled" /\ BatchOf(j) < BatchOf(k))
         => bCalls[j].st \in {"resolved", "rejected"}

\* The second batch of a list of four items in batches of two is in flight
\* and the first batch has settled, one call of it by failing.
C11_Witness ==
  /\ Len(bItems) = 4
  /\ bSize = 2
  /\ bI = 2
  /\ InFlight = {3, 4}
  /\ bCalls[1].st = "rejected"
  /\ bCalls[2].st = "resolved"

(***************************************************************************)
(* Claims about normalizeUrl (checked under SpecNormalize).                *)
(***************************************************************************)
\* Two URLs that differ at most in their scheme, in one leading www. label,
\* in the trailing slashes of the path and in letter case
DifferOnlyInForm(u, v) ==
  /\ ToLowerCase(u.host) = ToLowerCase(v.host)
  /\ ToLowerCase(u.path) = ToLowerCase(v.path)
  /\ u.query = v.query
  /\ u.frag = v.frag
  /\ u.www <= 1
  /\ v.www <= 1

\* C16: normalizeUrl returns the same key for any two URLs that differ only
\* in scheme (http, https or none), a leading www. label, trailing slashes
\* on the path and letter case.
C16_SameKey ==
  lib.fn = "normalizeUrl" =>
    \A v \in UrlParts :
      DifferOnlyInForm(lib.parts, v) => NormalizeChars(Render(v)) = lib.out

\* C17: normalizeUrl is idempotent: the key of a key is the key itself,
\* also for a host with more than one leading www. label.
C17_Idempotent ==
  (lib.fn = "normalizeUrl" /\ lib.again # Null) => lib.again.v = lib.out

\* C18: normalizeUrl always returns a key, and the key never depends on the
\* query string or the fragment, whether the URL parses or the fallback
\* transform is used: it is the key of the URL without them and holds
\* neither "?" nor "#".
C18_DropsQueryAndFragment ==
  lib.fn = "normalizeUrl" =>
    /\ lib.out = NormalizeChars(Render([lib.parts EXCEPT !.query = <<>>, !.frag = <<>>]))
    /\ \A k \in 1..Len(lib.out) : lib.out[k] \notin {"?", "#"}

(***************************************************************************)
(* Claims about mergeResults (checked under SpecMerge).                    *)
(***************************************************************************)
\* The key of an input item, the items the loop has consumed, and the
\* positions of a list at which a key appears for the first time
KeyOf(r) == normalizeUrl(r.url)
Consumed == SubSeq(lib.results, 1, lib.i)
FirstSeen(rs) ==
  SelectSeq([k \in 1..Len(rs) |-> k],
            LAMBDA k : \A j \in 1..(k - 1) : KeyOf(rs[j]) # KeyOf(rs[k]))
\* The sources of the items of rs with this key, each once, in the order of
\* their first appearance
SourcesSeen(rs, key) ==
  LET at == SelectSeq([k \in 1..Len(rs) |-> k],
                      LAMBDA k : /\ KeyOf(rs[k]) = key
                                 /\ \A j \in 1..(k - 1) :
                                      ~(KeyOf(rs[j]) = key /\ rs[j].source = rs[k].source))
  IN [n \in 1..Len(at) |-> rs[at[n]].source]
Merged == lib.fn = "mergeResults" /\ lib.out # Null

\* C12: mergeResults returns exactly one record per distinct normalized URL
\* of its input, in the order in which the keys first appear in the input;
\* an empty input gives an empty list.
C12_OnePerKey ==
  Merged =>
    LET out == lib.out.v
        first == FirstSeen(lib.results)
    IN /\ Len(out) = Len(first)
       /\ \A k \in 1..Len(out) : out[k].normalizedUrl = KeyOf(lib.results[first[k]])
       /\ lib.results = <<>> => out = <<>>

\* Two spellings of one page with another page between them give two
\* records, the page of the first item first.
C12_Witness ==
  /\ Merged
  /\ Len(lib.results) = 3
  /\ lib.results[1].url = "https://a.com/x"
  /\ lib.results[2].url = "https://b.com/y"
  /\ lib.results[3].url = "http://www.a.com/x/"
  /\ Len(lib.out.v) = 2
  /\ lib.out.v[1].url = "https://a.com/x"

\* C13: the sources of every merged record hold no tag twice and are the
\* sources of the input items whose URL normalizes to the record's key,
\* in the order of their first appearance (at the return and after every
\* pass of the loop).
C13_SourcesUnique ==
  lib.fn = "mergeResults" =>
    \A k \in 1..Len(lib.map) :
      LET m == lib.map[k]
      IN /\ \A a \in 1..Len(m.sources), b \in 1..Len(m.sources) :
              m.sources[a] = m.sources[b] => a = b
         /\ m.sources = SourcesSeen(Consumed, m.normalizedUrl)

\* A page found by Exa, then by Firecrawl under another spelling, then by
\* Exa again.
C13_Witness ==
  /\ Merged
  /\ Len(lib.results) = 3
  /\ lib.results[1].source = "exa"
  /\ lib.results[2].source = "firecrawl"
  /\ lib.results[3].source = "exa"
  /\ lib.results[1].url # lib.results[2].url
  /\ Len(lib.out.v) = 1
  /\ lib.out.v[1].sources = <<"exa", "firecrawl">>

\* The score the documentation gives the record of a key after the items rs
C14_Expected(rs, key) ==
  LET first == CHOOSE k \in 1..Len(rs) :
                 KeyOf(rs[k]) = key /\ \A j \in 1..(k - 1) : KeyOf(rs[j]) # key
  IN 1 + rs[first].score + (Len(SourcesSeen(rs, key)) - 1)
C14_State ==
  lib.fn = "mergeResults" =>
    \A k \in 1..Len(lib.map) :
      lib.map[k].relevanceScore = C14_Expected(Consumed, lib.map[k].normalizedUrl)
C14_Step ==
  (lib.fn = "mergeResults" /\ lib'.fn = "mergeResults") =>
    \A k \in 1..Len(lib.map) :
      /\ k <= Len(lib'.map)
      /\ lib'.map[k].relevanceScore >= lib.map[k].relevanceScore

\* C14: the relevanceScore of a merged record is 1 + the score of the item
\* that introduced its key (0 when absent) + 1 for every further distinct
\* source; a repeated source and the scores of later items add nothing,
\* and no pass of the loop lowers a score.
C14_ScoreRule == []C14_State /\ [][C14_Step]_vars

\* A page introduced by Firecrawl without a score, then found twice by Exa
\* with score 2: 1 + 0 + 1.
C14_Witness ==
  /\ Merged
  /\ Len(lib.results) = 3
  /\ lib.results[1].source = "firecrawl"
  /\ lib.results[2].source = "exa"
  /\ lib.results[3].source = "exa"
  /\ lib.results[2].score = 2
  /\ lib.results[3].score = 2
  /\ Len(lib.out.v) = 1
  /\ lib.out.v[1].relevanceScore = 2

(***************************************************************************)
(* Claims about rankByRelevance (checked under SpecRank).                  *)
(***************************************************************************)
\* The position of record x in the list rs
PositionIn(rs, x) == CHOOSE k \in 1..Len(rs) : rs[k] = x

\* C15: rankByRelevance returns a permutation of its input ordered by
\* sources.length descending, then by relevanceScore descending; records
\* equal on both keys keep their relative order of the input.
C15_RankedStable ==
  lib.fn = "rankByRelevance" =>
    LET in == lib.results
        out == lib.out
    IN /\ Len(out) = Len(in)
       /\ \A k \in 1..Len(in) : \E j \in 1..Len(out) : out[j] = in[k]
       /\ \A a \in 1..Len(out), b \in 1..Len(out) :
            a < b =>
              \/ Len(out[a].sources) > Len(out[b].sources)
              \/ /\ Len(out[a].sources) = Len(out[b].sources)
                 /\ out[a].relevanceScore > out[b].relevanceScore
              \/ /\ Len(out[a].sources) = Len(out[b].sources)
                 /\ out[a].relevanceScore = out[b].relevanceScore
                 /\ PositionIn(in, out[a]) < PositionIn(in, out[b])

\* Source counts 1, 2, 2, 1 with the third record scored above the second:
\* the third comes first, and the first stays ahead of the fourth.
C15_Witness ==
  /\ lib.fn = "rankByRelevance"
  /\ Len(lib.results) = 4
  /\ [k \in 1..4 |-> Len(lib.results[k].sources)] = <<1, 2, 2, 1>>
  /\ [k \in 1..4 |-> lib.results[k].relevanceScore] = <<1, 1, 2, 1>>
  /\ lib.out = <<lib.results[3], lib.results[2], lib.results[1], lib.results[4]>>

(***************************************************************************)
(* Claims about the tool executors (checked under SpecTools, SpecMass and, *)
(* for termination, FairTools).                                            *)
(***************************************************************************)
\* C6: no tool executor raises: an invocation never ends by throwing, and
\* one that has ended has returned a non-empty text report.
C6_ToolsNeverRaise ==
  /\ tpc # "raised"
  /\ tpc = "returned" => report # <<>> /\ report # <<"">>

\* C7: with timers firing, every tool invocation that has started
\* eventually ends, even when provider requests never settle.
C7_ToolsEventuallyReturn ==
  (tpc \in {"step1", "services", "batch"}) ~> (tpc \in {"returned", "raised"})

\* All three providers failed for the invocation: each of them was called
\* and no request made succeeded (a request still pending when the report
\* is returned was ended by the timer of its branch).
AllProvidersFailed ==
  /\ \A p \in Providers : \E s \in DOMAIN req : s[1] = p
  /\ \A s \in DOMAIN req : req[s].st # "ok"

\* The lines a report may use to state that no source was found, and the
\* lines of the warning block that carry an error of provider p
ZeroSourceStatements ==
  {"No results found.", "**Similar results found:** 0",
   "**Sources collected:** 0 (target: 100-150)"}
ProviderErrorStrings(p) ==
  {"[" \o ApiName(p) \o "] " \o d :
     d \in {ClientError(Site(p, m, 0)).text :
              m \in {"search", "findSimilar", "getContents", "scrape", "extract"}}
           \cup {"Timeout after 120000ms", "Timeout after 180000ms"}}
ErrorLines(text) ==
  {k \in 1..Len(text) :
     \E e \in {NoContentError} \cup UNION {ProviderErrorStrings(p) : p \in Providers} :
       text[k] = "- " \o e}
ProviderErrorLines(text, p) ==
  {k \in 1..Len(text) : \E e \in ProviderErrorStrings(p) : text[k] = "- " \o e}

\* C8: when all three providers fail, the returned report is non-empty
\* text that contains a zero-source statement and exactly three error
\* lines, one for each provider.
C8_AllFailedReport ==
  (tpc = "returned" /\ AllProvidersFailed) =>
    /\ report # <<>> /\ report # <<"">>
    /\ \E k \in 1..Len(report) : report[k] \in ZeroSourceStatements
    /\ Cardinality(ErrorLines(report)) = 3
    /\ \A p \in Providers : Cardinality(ProviderErrorLines(report, p)) = 1

\* C9: every provider request that failed, or that had not settled when
\* the timer of its branch ended it, has its error string in the warning
\* block of the returned report.
C9_FailuresShown ==
  tpc = "returned" =>
    \A s \in DOMAIN req :
      /\ req[s].st = "failed" =>
           \E k \in 1..Len(report) :
             report[k] = "- " \o "[" \o ApiName(s[1]) \o "] " \o ClientError(s).text
      /\ req[s].st = "pending" =>
           \E k \in 1..Len(report) :
             \E ms \in {"120000", "180000"} :
               report[k] = "- " \o "[" \o ApiName(s[1]) \o "] Timeout after "
                             \o ms \o "ms"

(***************************************************************************)
(* Claims about the report of deep_search (checked under SpecTools).       *)
(***************************************************************************)
\* The SearchResults in the slot of provider p that parallelServices
\* returned, the keys among all of them and the providers that returned a
\* URL with a given key
SlotItems(p) ==
  IF ret[0][p] = Null THEN {}
  ELSE {ret[0][p].v[k] : k \in 1..Len(ret[0][p].v)}
SlotKeys == {normalizeUrl(x.url) : x \in UNION {SlotItems(p) : p \in Providers}}
Contributors(key) ==
  {p \in Providers : \E x \in SlotItems(p) : normalizeUrl(x.url) = key}
Orders(S) ==
  {f \in [1..Cardinality(S) -> S] :
     \A a \in DOMAIN f, b \in DOMAIN f : f[a] = f[b] => a = b}

\* The heading of the entry of a key and the lines that list exactly its
\* contributors, in any order, with or without a date
EntryHeadings(key) ==
  {"### " \o ToString(n) \o ". [" \o (IF Truthy(x.title) THEN x.title ELSE x.url)
     \o "](" \o x.url \o ")" :
     n \in 1..Cardinality(SlotKeys),
     x \in {y \in UNION {SlotItems(p) : p \in Providers} : normalizeUrl(y.url) = key}}
SourceLines(key) ==
  {"Sources: " \o JoinStr([k \in DOMAIN f |-> BQ \o f[k] \o BQ], " ") \o d :
     f \in Orders(Contributors(key)),
     d \in {""} \cup
           {" | " \o y.publishedDate :
              y \in {x \in UNION {SlotItems(p) : p \in Providers} :
                       normalizeUrl(x.url) = key /\ Truthy(x.publishedDate)}}}

DsReturned == tool.name = "deep_search" /\ tpc = "returned"
AllReturnedResults == \A p \in Providers : SlotItems(p) # {}

\* C19: in the report of deep_search the status line shows a provider as
\* OK exactly when its slot is non-null; when all three providers returned
\* results, the count of the heading is the number of distinct normalized
\* URLs among the results of the three slots, and the entry of every URL
\* lists exactly the providers that returned it.
C19_ReportMatchesSlots ==
  DsReturned =>
    /\ report[1] = "**Services:** Exa: "
                     \o (IF ret[0].exa # Null THEN "OK" ELSE "FAILED")
                     \o " | Firecrawl: "
                     \o (IF ret[0].firecrawl # Null THEN "OK" ELSE "FAILED")
                     \o " | Perplexity: "
                     \o (IF ret[0].perplexity # Null THEN "OK" ELSE "FAILED")
    /\ AllReturnedResults =>
         /\ \E m \in 1..3 :
              report[2] = "## Search Results (" \o ToString(Cardinality(SlotKeys))
                            \o " unique from " \o ToString(m) \o " services)"
         /\ \A key \in SlotKeys :
              \E i \in 1..(Len(report) - 1) :
                /\ report[i] \in EntryHeadings(key)
                /\ report[i + 1] \in SourceLines(key)

\* Exa and Firecrawl return the same page under two spellings, Perplexity
\* a synthesis and one citation: three URLs, one of them shared.
C19_Witness ==
  /\ DsReturned
  /\ AllReturnedResults
  /\ Cardinality(SlotKeys) = 3
  /\ Contributors(normalizeUrl("https://a.com/x")) = {"exa", "firecrawl"}
  /\ report[1] = "**Services:** Exa: OK | Firecrawl: OK | Perplexity: OK"
  /\ report[2] = "## Search Results (3 unique from 3 services)"

(***************************************************************************)
(* Claims about the formatters (checked under SpecFormat).                 *)
(***************************************************************************)
\* C20: formatSearchResults returns exactly "No results found." whenever
\* the list to render is empty (no results, or maxResults 0), and
\* formatComparison returns exactly "No items to compare." for an empty
\* list of items, whatever the criteria.
C20_EmptyLists ==
  /\ (/\ lib.fn = "formatSearchResults"
      /\ lib.results = <<>> \/ lib.maxResults = Value(0))
       => lib.out = <<"No results found.">>
  /\ (lib.fn = "formatComparison" /\ lib.items = <<>>)
       => lib.out = <<"No items to compare.">>

\* Two records rendered with maxResults 0.
C20_Witness ==
  /\ lib.fn = "formatSearchResults"
  /\ Len(lib.results) = 2
  /\ lib.maxResults = Value(0)
  /\ lib.out = <<"No results found.">>

(***************************************************************************)
(* Claims about the order of errors and about abandoned calls (checked     *)
(* under Spec).                                                            *)
(***************************************************************************)
\* The providers whose branch has failed, in the order of their lines in
\* errors
FailedOrder(i) ==
  [k \in 1..Len(errors[i]) |->
     CHOOSE p \in Providers : errors[i][k] \in ExpectedErrors(p)]

\* C29: errors is in the order in which the failing branches settled: a
\* step changes errors only by appending, at its end, one line of a
\* provider whose branch that step settles with null; so the order is that
\* of the settlements, whatever the order of the names. (Every order of the
\* failing providers occurs: C29_Witness is the reverse of the order of the
\* names, ErrorOrder gives the others.)
C29_Step ==
  errors'[0] # errors[0] =>
    \E p \in Providers :
      /\ slot[0][p].st = "pending"
      /\ slot'[0][p] = [st |-> "fulfilled", val |-> Null]
      /\ \A q \in Providers \ {p} : slot'[0][q] = slot[0][q]
      /\ \E line \in ExpectedErrors(p) : errors'[0] = Append(errors[0], line)
C29_State ==
  /\ Len(errors[0]) = Cardinality({p \in Providers :
                                     slot[0][p] = [st |-> "fulfilled", val |-> Null]})
  /\ \A k \in 1..Len(errors[0]) : \E p \in Providers : errors[0][k] \in ExpectedErrors(p)
C29_SettlementOrder == []C29_State /\ [][C29_Step]_vars

\* parallelServices has returned with the failing providers in order o
ErrorOrder(o) == ppc[0] = "returned" /\ FailedOrder(0) = o

\* All three failed, Perplexity first and Exa last.
C29_Witness == ErrorOrder(<<"perplexity", "firecrawl", "exa">>)

\* C30: a call whose timer has won is not cancelled: it may still resolve
\* or reject afterwards. Such a late settlement changes neither a slot nor
\* errors; a timer that fires after its call has settled changes neither
\* as well; and once parallelServices has returned, the slots and the
\* errors of the ParallelResults it returned never change.
C30_Step ==
  /\ ppc[0] = "returned" => ParallelResults(0)' = ParallelResults(0)
  /\ \A p \in Providers :
       (slot[0][p].st # "pending" /\ (fn'[0][p] # fn[0][p] \/ timer'[0][p] # timer[0][p]))
         => slot' = slot /\ errors' = errors /\ ret' = ret
C30_AbandonedNotCancelled == [][C30_Step]_vars

\* After the return: the Exa call, ended by its timer, resolved late; the
\* Perplexity call, ended by its timer, rejected late; the Firecrawl timer
\* fired after the Firecrawl call had resolved.
C30_Witness ==
  /\ ppc[0] = "returned"
  /\ ret[0].exa = Null /\ fn[0]["exa"].st = "resolved"
  /\ ret[0].perplexity = Null /\ fn[0]["perplexity"].st = "rejected"
  /\ fn[0]["firecrawl"].st = "resolved" /\ ret[0].firecrawl = fn[0]["firecrawl"].val
  /\ timer[0]["firecrawl"] = "fired"
  /\ errors[0] = <<"[Exa] Timeout after 120000ms", "[Perplexity] Timeout after 180000ms">>

(***************************************************************************)
(* Claims about the limits of request sizes (checked under SpecClamp).     *)
(***************************************************************************)
\* C27: whatever params.numResults and the configured default are, the
\* search requests of deep_search that carry a count (Exa's numResults,
\* Firecrawl's limit) ask for at most 50 results, and for exactly the
\* requested number when that is at most 50; scrape_and_extract works on
\* the first 20 of the given URLs, on all of them when they are fewer.
C27_Clamped ==
  /\ lib.fn = "deep_search" =>
       LET asked == IF lib.numResults = Null THEN lib.defaultNumResults
                    ELSE lib.numResults.v
       IN \A p \in Providers :
            lib.requested[p] # Null =>
              /\ lib.requested[p].v <= 50
              /\ asked <= 50 => lib.requested[p].v = asked
              /\ asked > 50 => lib.requested[p].v = 50
  /\ lib.fn = "scrape_and_extract" =>
       /\ Len(lib.urls) <= 20
       /\ Len(lib.urls) = IF Len(lib.given) < 20 THEN Len(lib.given) ELSE 20
       /\ \A k \in 1..Len(lib.urls) : lib.urls[k] = lib.given[k]

\* deep_search asked for 51 results: Exa and Firecrawl are asked for 50.
C27_Witness ==
  /\ lib.fn = "deep_search"
  /\ lib.numResults = Value(51)
  /\ lib.requested["exa"] = Value(50)
  /\ lib.requested["firecrawl"] = Value(50)

\* scrape_and_extract given 22 URLs works on the first 20
SliceActed ==
  /\ lib.fn = "scrape_and_extract"
  /\ Len(lib.given) = 22
  /\ Len(lib.urls) = 20

(***************************************************************************)
(* Claims about compare_offers (checked under SpecOffers).                 *)
(***************************************************************************)
\* The extraction targets top are the URLs of the first 20 records of the
\* ranked list merged, in rank order, without the perplexity:// URL
IsTopOf(top, merged) ==
  LET first == 1..Min(20, Len(merged))
      Pos(u) == CHOOSE k \in first : merged[k].url = u
  IN /\ Len(top) <= 20
     /\ \A i \in 1..Len(top) :
          /\ top[i] # "perplexity://synthesis"
          /\ \E k \in first : merged[k].url = top[i]
     /\ \A i, j \in 1..Len(top) : i < j => Pos(top[i]) < Pos(top[j])
     /\ \A k \in first :
          merged[k].url # "perplexity://synthesis"
            => \E i \in 1..Len(top) : top[i] = merged[k].url

\* C23: the URLs compare_offers hands to firecrawl.extract are the URLs of
\* the 20 top-ranked merged records, in rank order, without any
\* perplexity:// URL; the extraction request is issued exactly when that
\* list is not empty.
C23_ExtractionTargets ==
  /\ lib.fn = "topUrls" => IsTopOf(lib.out, lib.merged)
  /\ (tool.name = "compare_offers" /\ tpc \in {"extract", "analysis", "returned"}) =>
       /\ IsTopOf(loc.topUrls, loc.merged)
       /\ CoExtractSite \in DOMAIN req <=> Len(loc.topUrls) > 0
  /\ (tool.name = "compare_offers" /\ tpc = "services") => CoExtractSite \notin DOMAIN req

\* The extraction is under way for the one page found; the record of the
\* perplexity:// URL is among the merged ones.
C23_Witness ==
  /\ tool.name = "compare_offers"
  /\ tpc = "extract"
  /\ IsPending(CoExtractSite)
  /\ Len(loc.merged) = 2
  /\ \E k \in 1..2 : loc.merged[k].url = "perplexity://synthesis"
  /\ loc.topUrls = <<"https://a.com/x">>

\* Only the perplexity:// record was found: no extraction, the report is
\* returned.
NoTargetsNoExtraction ==
  /\ tool.name = "compare_offers"
  /\ tpc = "returned"
  /\ Len(loc.merged) = 1
  /\ loc.topUrls = <<>>
  /\ CoExtractSite \notin DOMAIN req

\* Of 22 ranked records, the third under a perplexity:// URL, 19 are kept
TopOfLongList ==
  /\ lib.fn = "topUrls"
  /\ Len(lib.merged) = 22
  /\ lib.merged[3].url = "perplexity://synthesis"
  /\ Len(lib.out) = 19

\* The narrative of the returned report: the line that follows the heading
\* "## Analysis & Recommendations" and an empty line, "" without heading
NarrativeShown ==
  IF \E k \in 1..Len(report) : report[k] = "## Analysis & Recommendations"
    THEN report[(CHOOSE k \in 1..Len(report) :
                   report[k] = "## Analysis & Recommendations") + 2]
    ELSE ""
\* The text of the first Perplexity call, "" if the call failed, timed out
\* or returned no text
FirstPassNarrative ==
  IF ret[0].perplexity # Null /\ ret[0].perplexity.v.text # Undefined
    THEN ret[0].perplexity.v.text ELSE ""

\* C24: the second Perplexity call is issued exactly when extracted items
\* exist. The narrative of the report is the text of that call if it was
\* issued and resolved with a non-empty text; otherwise (not issued,
\* failed, empty text) it is the text of the first Perplexity call; with
\* no text at all the report has no narrative section.
C24_Narrative ==
  (tool.name = "compare_offers" /\ tpc = "returned") =>
    /\ CoAnalysisSite \in DOMAIN req <=> Len(loc.extractedData) > 0
    /\ LET second == IF CoAnalysisSite \in DOMAIN req /\ req[CoAnalysisSite].st = "ok"
                       THEN req[CoAnalysisSite].val.v.text ELSE ""
       IN NarrativeShown = IF second # "" THEN second ELSE FirstPassNarrative
    /\ (\E k \in 1..Len(report) : report[k] = "## Analysis & Recommendations")
         => NarrativeShown # ""

\* The second call failed: the report shows the first-pass narrative.
C24_Witness ==
  /\ tool.name = "compare_offers"
  /\ tpc = "returned"
  /\ CoAnalysisSite \in DOMAIN req
  /\ req[CoAnalysisSite].st = "failed"
  /\ NarrativeShown = "Synthesis."

\* The second call succeeded / nothing to show
SecondNarrativeShown ==
  /\ tool.name = "compare_offers" /\ tpc = "returned"
  /\ FirstPassNarrative = "Synthesis." /\ NarrativeShown = "Ranking."
NoNarrativeSection ==
  /\ tool.name = "compare_offers" /\ tpc = "returned"
  /\ CoAnalysisSite \in DOMAIN req
  /\ ret[0].perplexity = Null
  /\ \A k \in 1..Len(report) : report[k] # "## Analysis & Recommendations"

(***************************************************************************)
(* Claims about the summary of mass_summary (checked under SpecMass) and   *)
(* about its list of sources (checked under SpecClamp).                    *)
(***************************************************************************)
\* perplexity.deepResearch(...) of step 3, and the topic of the invocation
MsSynthesisSite == Site("perplexity", "deepResearch", 0)
MsTopic == "topic"

\* The collection and batchProcess are over
MsPastContents == tool.name = "mass_summary" /\ tpc \notin {"idle", "services", "batch"}

\* The line of the report that follows the heading h and an empty line
LineAfter(h) ==
  IF \E k \in 1..Len(report) : report[k] = h
    THEN report[(CHOOSE k \in 1..Len(report) : report[k] = h) + 2]
    ELSE Undefined

\* C25: once the contents are fetched the synthesis call is issued and the
\* invocation ends by returning a report. Its summary is the text of the
\* synthesis call if that call resolved; if it failed, the first-pass
\* Perplexity text when that is non-empty, and otherwise the sentence
\* "Summary based on <n> collected sources about "<topic>".".
C25_SummaryFallback ==
  MsPastContents =>
    /\ MsSynthesisSite \in DOMAIN req
    /\ tpc = "returned"
    /\ req[MsSynthesisSite].st \in {"ok", "failed"}
    /\ LET firstPass == IF ret[0].perplexity # Null THEN ret[0].perplexity.v.text ELSE ""
       IN LineAfter("## Research Summary") =
            IF req[MsSynthesisSite].st = "ok"
              THEN req[MsSynthesisSite].val.v.text
              ELSE IF firstPass # "" THEN firstPass
              ELSE "Summary based on " \o ToString(Len(loc.trimmedUrls))
                     \o " collected sources about \"" \o MsTopic \o "\"."

\* The URLs collected, in the order Exa, Firecrawl, Perplexity citations
MsCollected == [k \in 1..Len(loc.urlsWithTitles) |-> loc.urlsWithTitles[k].url]

\* list keeps, in order, the first occurrence of every normalized key of
\* urls, at most max of them
IsFirstSeenList(list, urls, max) ==
  LET FirstAt(key) == CHOOSE k \in 1..Len(urls) :
                        /\ normalizeUrl(urls[k]) = key
                        /\ \A j \in 1..(k - 1) : normalizeUrl(urls[j]) # key
      keys == {normalizeUrl(urls[k]) : k \in 1..Len(urls)}
  IN /\ Len(list) = Min(max, Cardinality(keys))
     /\ \A i, j \in 1..Len(list) :
          i # j => normalizeUrl(list[i]) # normalizeUrl(list[j])
     /\ \A i \in 1..Len(list) : list[i] = urls[FirstAt(normalizeUrl(list[i]))]
     /\ \A i, j \in 1..Len(list) :
          i < j => FirstAt(normalizeUrl(list[i])) < FirstAt(normalizeUrl(list[j]))
     /\ \A key \in keys :
          (\A i \in 1..Len(list) : normalizeUrl(list[i]) # key)
            => /\ Len(list) = max
               /\ \A i \in 1..Len(list) : FirstAt(key) > FirstAt(normalizeUrl(list[i]))

MsListDeduplicated ==
  (tool.name = "mass_summary" /\ tpc \in {"batch", "raised", "returned"}) =>
    IsFirstSeenList(loc.trimmedUrls, MsCollected, DefaultMaxSources)

\* In an invocation a URL found by two providers is listed once
MsDedupActed ==
  /\ tool.name = "mass_summary" /\ tpc = "batch"
  /\ Len(MsCollected) = 3
  /\ Len(loc.trimmedUrls) = 2

(***************************************************************************)
(* Claims about the rounds of deep_research (checked under SpecDeep).      *)
(***************************************************************************)
\* The depth an invocation, or a call of its plan, works at
EffectiveDepth(depth) == IF depth = Null THEN "deep" ELSE depth.v
DepthRank(depth) ==
  CASE EffectiveDepth(depth) = "exhaustive" -> 3
    [] EffectiveDepth(depth) = "deep" -> 2
    [] OTHER -> 1

\* The requests of the rounds that are in req
Round1Issued == {p \in Providers : DrR1Site(p) \in DOMAIN req}
Round2Issued == {k \in 1..FocusAreaLimit : \E p \in Providers : DrR2Site(p, k) \in DOMAIN req}
Round3Issued == {v \in 1..3 : \E p \in Providers : DrR3Site(p, v) \in DOMAIN req}
DrInvoked == tool.name = "deep_research"
DrPastStep2 == DrInvoked /\ tpc \in {"round2", "step3", "round3", "compile", "returned"}
DrPastStep3 == DrInvoked /\ tpc \in {"round3", "compile", "returned"}

StandardOneRound ==
  /\ DrInvoked /\ tpc = "returned"
  /\ tool.depth = Value("standard") /\ Len(tool.focusAreas) = 2
  /\ Round2Issued = {} /\ Round3Issued = {}

\* An invocation without a depth ran rounds 1 and 2
DefaultDepthTwoRounds ==
  /\ DrInvoked /\ tpc = "returned"
  /\ tool.depth = Null
  /\ Round2Issued = {1} /\ Round3Issued = {}

\* Of six focus areas the first five are planned
FocusCapActed ==
  /\ lib.fn = "deep_research"
  /\ Len(lib.focusAreas) = 6
  /\ Len(lib.areas) = 5


\* C22: every round of an invocation issues its query to all three
\* services: whenever a request of round 1, of a focus area of round 2 or of
\* a variation of round 3 has been issued, the requests to Exa, Firecrawl
\* and Perplexity of that round, focus area or variation have been issued.
C22_AllThreeServices ==
  DrInvoked =>
    /\ Round1Issued # {} => Round1Issued = Providers
    /\ \A k \in Round2Issued : \A p \in Providers : DrR2Site(p, k) \in DOMAIN req
    /\ \A v \in Round3Issued : \A p \in Providers : DrR3Site(p, v) \in DOMAIN req

\* C28: no provider request is retried. A request that has been issued is
\* never issued again, whether it is pending, answered, failed or abandoned
\* by a timeout, and a provider call of an engine invocation that has been
\* made is never made again.
C28_Step ==
  /\ DOMAIN req \subseteq DOMAIN req'
  /\ \A s \in DOMAIN req :
       /\ req[s].st # "pending" => req'[s] = req[s]
       /\ req'[s].st = "pending" => req[s].st = "pending"
  /\ \A i \in Inst : \A p \in Providers :
       /\ fn[i][p].st \in {"resolved", "rejected"} => fn'[i][p] = fn[i][p]
       /\ fn[i][p].st = "pending" => fn'[i][p].st # "notCalled"
C28_NoRetry == [][C28_Step]_vars

\* An invocation has returned although its Exa request of round 1 failed
\* and its Perplexity call timed out and was never answered
C28_Witness ==
  /\ DrInvoked /\ tpc = "returned"
  /\ req[DrR1Site("exa")].st = "failed"
  /\ timer[0]["perplexity"] = "fired"
  /\ req[DrR1Site("perplexity")].st = "pending"
  /\ fn[0]["perplexity"].st = "pending"

(***************************************************************************)
(* Claims about the failures and the termination of batchProcess (checked  *)
(* under SpecBatch and FairBatch).                                         *)
(***************************************************************************)
RejectedItems == {k \in DOMAIN bCalls : bCalls[k].st = "rejected"}

\* C32: a rejected processor call never makes batchProcess raise and never
\* keeps another item from being processed: at the return every item of
\* every batch has been processed and the items that succeeded have their
\* values; and errors holds exactly one string per failed item, "Batch item
\* <index>: <message>" with the 0-based position of the item in items.
C32_FailuresContained ==
  /\ bpc \in {"idle", "loop", "awaiting", "done"}
  /\ Len(bErrors) = Cardinality(RejectedItems)
  /\ \A k \in RejectedItems :
       \E j \in 1..Len(bErrors) : \E e \in Thrown :
         bErrors[j] = "Batch item " \o ToString(k - 1) \o ": " \o e.text
  /\ bpc = "done" =>
       \A k \in 1..Len(bItems) :
         /\ bCalls[k].st \in {"resolved", "rejected"}
         /\ bCalls[k].st = "resolved" => bResults[k] = ProcValue(bItems[k])

\* The third of four items, in the second batch of two, failed; its batch
\* mate and the batch before it were processed
C32_Witness ==
  /\ bpc = "done"
  /\ Len(bItems) = 4 /\ bSize = 2
  /\ RejectedItems = {3}
  /\ bErrors = <<"Batch item 2: API failed (500)">>
  /\ bResults[4] = ProcValue(bItems[4])

\* The first item of a list failed and a later batch was processed
FailureThenLaterBatch ==
  /\ bpc = "done"
  /\ Len(bItems) = 3 /\ bSize = 1
  /\ RejectedItems = {1, 2}
  /\ Len(bErrors) = 2
  /\ bCalls[3].st = "resolved"


\* The batches batchProcess has finished
BatchesDone == bI \div bSize

\* C38: batchProcess, once entered, returns if every processor call
\* settles; it returns after exactly ceil(n / batchSize) batches, and only
\* when every processor call of every batch has settled; while a call of
\* the current batch is pending it does not go on.
C38_State ==
  /\ bpc = "done" =>
       /\ BatchesDone = (Len(bItems) + bSize - 1) \div bSize
       /\ \A k \in 1..Len(bItems) : bCalls[k].st \in {"resolved", "rejected"}
  /\ bpc \in {"loop", "awaiting"} =>
       /\ BatchesDone <= (Len(bItems) + bSize - 1) \div bSize
       /\ \A k \in 1..Len(bItems) :
            k <= bI => bCalls[k].st \in {"resolved", "rejected"}
C38_Terminates ==
  /\ []C38_State
  /\ (bpc = "loop") ~> (bpc = "done")

\* Four items in batches of three were processed in two batches
C38_Witness ==
  /\ bpc = "done"
  /\ Len(bItems) = 4 /\ bSize = 3
  /\ BatchesDone = 2

\* The empty list returns without a batch
EmptyListNoBatch ==
  /\ bpc = "done" /\ bItems = <<>> /\ BatchesDone = 0

(***************************************************************************)
(* Claims about the fields of merged records (checked under SpecFields).   *)
(***************************************************************************)
ItemsOfKey(rs, key) == SelectSeq(rs, LAMBDA r : KeyOf(r) = key)

\* The first of the longest non-empty texts, or none when there is none
FirstLongest(texts, none) ==
  LET given == SelectSeq(texts, LAMBDA t : t # "" /\ t # Undefined)
  IN IF given = <<>> THEN none
     ELSE given[CHOOSE k \in 1..Len(given) :
                  /\ \A j \in 1..Len(given) : Len(given[j]) <= Len(given[k])
                  /\ \A j \in 1..(k - 1) : Len(given[j]) < Len(given[k])]
\* The first non-empty text, or none
FirstGiven(texts, none) ==
  LET given == SelectSeq(texts, LAMBDA t : t # "" /\ t # Undefined)
  IN IF given = <<>> THEN none ELSE given[1]

C33_State ==
  lib.fn = "mergeResults" =>
    \A k \in 1..Len(lib.map) :
      LET m == lib.map[k]
          items == ItemsOfKey(Consumed, m.normalizedUrl)
      IN /\ m.content = FirstLongest([j \in 1..Len(items) |-> items[j].content],
                                     items[1].content)
         /\ m.snippet = FirstLongest([j \in 1..Len(items) |-> items[j].snippet], "")
         /\ m.publishedDate =
              FirstGiven([j \in 1..Len(items) |-> items[j].publishedDate],
                         items[1].publishedDate)

C33_Step ==
  (lib.fn = "mergeResults" /\ lib'.fn = "mergeResults" /\ lib'.i = lib.i + 1) =>
    LET r == lib.results[lib.i + 1]
        Given(t) == t # "" /\ t # Undefined
    IN \A k \in 1..Len(lib.map) :
         LET old == lib.map[k]
             new == lib'.map[k]
         IN /\ new.content # old.content =>
                 /\ KeyOf(r) = old.normalizedUrl
                 /\ Given(r.content) /\ new.content = r.content
                 /\ ~Given(old.content) \/ Len(r.content) > Len(old.content)
            /\ new.snippet # old.snippet =>
                 /\ KeyOf(r) = old.normalizedUrl
                 /\ Given(r.snippet) /\ new.snippet = r.snippet
                 /\ Len(r.snippet) > Len(old.snippet)
            /\ new.publishedDate # old.publishedDate =>
                 /\ KeyOf(r) = old.normalizedUrl
                 /\ ~Given(old.publishedDate)
                 /\ Given(r.publishedDate) /\ new.publishedDate = r.publishedDate

\* C33: a pass of the merge loop replaces the content of a record only by
\* a non-empty content that is strictly longer than the current one (or
\* when the record has none), its snippet only by a non-empty strictly
\* longer snippet, and sets its publishedDate only when it has none; so
\* content and snippet are the first-seen among the longest of the items of
\* the key, and publishedDate is the first non-empty one.
C33_FieldRules == []C33_State /\ [][C33_Step]_vars

\* An item without text or date, then two items with texts of equal length
\* and different dates: the first text and the first date are kept
C33_Witness ==
  /\ Merged
  /\ Len(lib.results) = 3
  /\ lib.results[1].snippet = "" /\ lib.results[1].publishedDate = Undefined
  /\ lib.results[2].snippet = "ab" /\ lib.results[3].snippet = "cd"
  /\ Len(lib.out.v) = 1
  /\ lib.out.v[1].content = "ab" /\ lib.out.v[1].snippet = "ab"
  /\ lib.out.v[1].publishedDate = "2024-01-02"

\* A longer text replaces a shorter one
LongerTextReplaces ==
  /\ Merged
  /\ Len(lib.results) = 2
  /\ lib.results[1].content = "cd" /\ lib.results[2].content = "abc"
  /\ Len(lib.out.v) = 1
  /\ lib.out.v[1].content = "abc" /\ lib.out.v[1].snippet = "abc"
  /\ lib.out.v[1].publishedDate = "2025-03-04"

C39_State ==
  lib.fn = "mergeResults" =>
    \A k \in 1..Len(lib.map) :
      LET m == lib.map[k]
          first == ItemsOfKey(Consumed, m.normalizedUrl)[1]
      IN /\ m.normalizedUrl = normalizeUrl(m.url)
         /\ m.url = first.url
         /\ m.title = IF first.title # "" /\ first.title # Undefined
                        THEN first.title ELSE first.url

C39_Step ==
  (lib.fn = "mergeResults" /\ lib'.fn = "mergeResults" /\ lib'.i = lib.i + 1) =>
    /\ Len(lib'.map) >= Len(lib.map)
    /\ \A k \in 1..Len(lib.map) :
         /\ lib'.map[k].url = lib.map[k].url
         /\ lib'.map[k].normalizedUrl = lib.map[k].normalizedUrl
         /\ lib'.map[k].title = lib.map[k].title

\* C39: the url, normalizedUrl and title of a merged record are those of
\* the first item seen for its key (the title being the URL when that item
\* has none), no later pass of the loop changes them, and normalizedUrl is
\* normalizeUrl(url) for every record.
C39_FirstItemFixes == []C39_State /\ [][C39_Step]_vars

\* An untitled item of a page, then a titled item of the same page under
\* another spelling: the record keeps the URL of the first, also as title
C39_Witness ==
  /\ Merged
  /\ Len(lib.results) = 2
  /\ lib.results[1].url = "http://www.a.com/x/" /\ lib.results[1].title = ""
  /\ lib.results[2].url = "https://a.com/x" /\ lib.results[2].title = "T3"
  /\ Len(lib.out.v) = 1
  /\ lib.out.v[1].url = "http://www.a.com/x/"
  /\ lib.out.v[1].title = "http://www.a.com/x/"
  /\ lib.out.v[1].normalizedUrl = normalizeUrl("https://a.com/x")

(***************************************************************************)
(* Claim about the extracted items of compare_offers (checked under        *)
(* SpecOffers).                                                            *)
(***************************************************************************)
\* The extraction of an invocation has delivered data
CoExtracted ==
  /\ tool.name = "compare_offers"
  /\ tpc \in {"analysis", "returned"}
  /\ CoExtractSite \in DOMAIN req
  /\ req[CoExtractSite].st = "ok"
  /\ req[CoExtractSite].val.v.success
  /\ req[CoExtractSite].val.v.data # Null

\* Item i carries the i-th target URL, for the items that have one
TaggedInOrder ==
  CoExtracted =>
    \A i \in 1..Len(loc.extractedData) :
      /\ i <= Len(loc.topUrls) =>
           ItemGet(loc.extractedData[i], "url") = loc.topUrls[i]
      /\ ItemGet(loc.extractedData[i], "source") = "firecrawl-extract"

\* C35: every extracted item is tagged with the target URL of its
\* position, none is left with an empty URL, and every target URL has an
\* item tagged with it, whatever the number of items in the response.
C35_TaggedWithSource ==
  CoExtracted =>
    /\ \A i \in 1..Len(loc.extractedData) :
         /\ i <= Len(loc.topUrls)
         /\ ItemGet(loc.extractedData[i], "url") = loc.topUrls[i]
         /\ ItemGet(loc.extractedData[i], "url") # ""
    /\ \A j \in 1..Len(loc.topUrls) :
         \E i \in 1..Len(loc.extractedData) :
           ItemGet(loc.extractedData[i], "url") = loc.topUrls[j]

\* More items than target URLs: the second item has an empty URL
ItemWithoutUrl ==
  /\ CoExtracted
  /\ Len(loc.topUrls) = 1 /\ Len(loc.extractedData) = 2
  /\ ItemGet(loc.extractedData[2], "url") = ""

\* Fewer items than target URLs: the second target has no item
TargetWithoutItem ==
  /\ CoExtracted
  /\ Len(loc.topUrls) = 2 /\ Len(loc.extractedData) = 1
  /\ ItemGet(loc.extractedData[1], "url") = loc.topUrls[1]


(***************************************************************************)
(* deep_research: what a provider branch touches                           *)
(***************************************************************************)
\* Branch p of engine invocation i completes in this step
BranchCompletes(i, p) == fn[i][p].st = "pending" /\ fn'[i][p].st # "pending"

\* What the executor shares with its branches: allResults, sections,
\* allErrors and the report
DrSharedState == <<loc, allErrors, report>>

\* C31: a step in which a provider branch of a deep_research request
\* completes changes nothing that the branch shares with the other branches
\* or with the executor; its only effect is the value it hands to the join.
C31_BranchesReturnOnly ==
  [][(DrInvoked /\ \E i \in Inst : \E p \in Providers : BranchCompletes(i, p))
       => UNCHANGED DrSharedState]_vars

\* The branches of Exa and Firecrawl do keep to their returned value
SearchBranchesReturnOnly ==
  [][(DrInvoked /\ \E i \in Inst : \E p \in {"exa", "firecrawl"} : BranchCompletes(i, p))
       => UNCHANGED DrSharedState]_vars

\* Two focus-area branches of Perplexity have written to sections while
\* both engine invocations were still awaited
SectionsWrittenByTwoBranches ==
  /\ tpc = "round2"
  /\ ppc[1] = "awaiting" /\ ppc[2] = "awaiting"
  /\ fn[1]["perplexity"].st = "resolved" /\ fn[2]["perplexity"].st = "resolved"
  /\ Len(loc.sections) >= 2


(***************************************************************************)
(* deep_research: the order of the rounds                                  *)
(***************************************************************************)
\* The engine invocations of the focus areas that have been started
FocusStarted == {i \in 1..MaxInst : ppc[i] # "idle"}
\* The requests of round 3 that are still unanswered
Round3Pending == {s \in UNION {DrR3Sites(v) : v \in 1..3} : IsPending(s)}

\* C34: the rounds of deep_research follow one another: a request of round
\* 2 is in flight only when the three slots of the round-1 engine call are
\* settled (by an answer, an error or the timer) and that call has returned;
\* a request of round 3 only when the engine call of every focus area has
\* returned; the report is compiled only when every engine call that was
\* started has returned and no request of round 3 is unanswered. Within
\* round 2 the engine calls of all focus areas, and within round 3 the
\* requests of all three variations, are launched in one step, before any
\* of them is awaited.
C34_State ==
  DrInvoked =>
    /\ Round2Issued # {} =>
         /\ \A p \in Providers : Settled(0, p)
         /\ ppc[0] = "returned"
    /\ Round3Issued # {} =>
         /\ ppc[0] = "returned"
         /\ \A i \in FocusStarted : ppc[i] = "returned"
    /\ tpc \in {"compile", "returned"} =>
         /\ ppc[0] = "returned"
         /\ \A i \in FocusStarted : ppc[i] = "returned"
         /\ Round3Pending = {}
    /\ report # <<>> => tpc = "returned"
    /\ FocusStarted = Round2Issued
C34_Step ==
  /\ (DrInvoked /\ Round2Issued = {} /\ Round2Issued' # {}) =>
       /\ Round2Issued' = 1..Len(DrAreas(tool.focusAreas))
       /\ \A i \in Round2Issued' : \A p \in Providers :
            ppc'[i] = "awaiting" /\ IsPending(DrR2Site(p, i))'
  /\ (DrInvoked /\ Round3Issued = {} /\ Round3Issued' # {}) =>
       Round3Pending' = UNION {DrR3Sites(v) : v \in 1..3}
C34_RoundsInSequence == []C34_State /\ [][C34_Step]_vars

\* An exhaustive run with two focus areas has returned its report after
\* three rounds
C34_Witness ==
  /\ DrInvoked /\ tpc = "returned" /\ report # <<>>
  /\ Round2Issued = {1, 2} /\ Round3Issued = {1, 2, 3}

\* Two focus areas are in flight together, requests of both unanswered
FocusAreasOverlap ==
  /\ tpc = "round2"
  /\ \A i \in {1, 2} : ppc[i] = "awaiting" /\ \E p \in Providers : IsPending(DrR2Site(p, i))
  /\ \E p \in Providers : ~IsPending(DrR2Site(p, 1))
  /\ \E p \in Providers : ~IsPending(DrR2Site(p, 2))

\* The three variations are in flight together, one request of each answered
VariationsOverlap ==
  /\ tpc = "round3"
  /\ \A v \in 1..3 : Cardinality(DrR3Sites(v) \cap Round3Pending) = 1

\* Round 2 has started while the Perplexity request of round 1, abandoned
\* by its timer, is unanswered
AbandonedCallOutlivesRound ==
  /\ Round2Issued # {}
  /\ IsPending(DrR1Site("perplexity"))


(***************************************************************************)
(* deep_research: narrative sections and the slots of Perplexity           *)
(***************************************************************************)
\* The heading of the narrative section of engine call i
NarrativeHeading(i) ==
  IF i = 0 THEN "## Perplexity Deep Research Analysis"
           ELSE "## Focus: " \o tool.focusAreas[i]
NarrativeInReport(i) == \E k \in 1..Len(report) : report[k] = NarrativeHeading(i)
PerplexityTimeoutLine == "- [Perplexity] Timeout after 180000ms"
TimeoutInReport == \E k \in 1..Len(report) : report[k] = PerplexityTimeoutLine
\* The engine calls of the run
DrCalls == {0} \cup FocusStarted

\* C37: the report of deep_research holds the narrative section of a
\* Perplexity call only if the slot of that call was not null; a call whose
\* race was rejected by the timer, and whose timeout the report lists, has
\* no narrative in the report.
C37_NarrativeOnlyIfSlot ==
  (DrInvoked /\ tpc = "returned") =>
    \A i \in DrCalls :
      /\ NarrativeInReport(i) => slot[i]["perplexity"].val # Null
      /\ (timer[i]["perplexity"] = "fired" /\ TimeoutInReport) => ~NarrativeInReport(i)

\* A call that failed, or that was not answered before the report, has no
\* narrative
NoNarrativeWithoutAnswer ==
  (DrInvoked /\ tpc = "returned") =>
    \A i \in DrCalls :
      NarrativeInReport(i) => req[DrEngineSite(i, "perplexity")].st = "ok"

\* The report of a run with focus areas lists the timeout of the round-1
\* Perplexity call and holds that call's narrative
TimedOutCallNarrated ==
  /\ DrInvoked /\ tpc = "returned"
  /\ Round2Issued # {}
  /\ timer[0]["perplexity"] = "fired" /\ TimeoutInReport
  /\ slot[0]["perplexity"].val = Null
  /\ NarrativeInReport(0)


(***************************************************************************)
(* deep_research: the listing and the order in which calls complete        *)
(***************************************************************************)
\* What the listing of the report shows of the ranked records
DrListing(allResults) ==
  LET merged == rankByRelevance(mergeResults(allResults))
  IN [k \in 1..Len(merged) |-> <<merged[k].url, merged[k].title, merged[k].sources>>]

RECURSIVE PushedInOrder(_, _)
\* What the engine calls from..MaxInst of the run have pushed when they
\* return in the order of their focus areas
PushedInOrder(from, upTo) ==
  IF from > upTo THEN <<>>
  ELSE (IF from \in DrCalls THEN DrPushed(AwaitedResults(from)) ELSE <<>>)
         \o PushedInOrder(from + 1, upTo)
RECURSIVE VariationsInOrder(_)
VariationsInOrder(from) ==
  IF from > 3 THEN <<>>
  ELSE (IF from \in Round3Issued THEN DrVariationPushed(req, from) ELSE <<>>)
         \o VariationsInOrder(from + 1)
\* allResults of the run in which the calls of every round complete in the
\* order in which they were launched, with the answers of this run
AllResultsInOrder == PushedInOrder(0, MaxInst) \o VariationsInOrder(1)

\* C36: the ranked listing of a report (the records, their order, and the
\* url, title and sources shown for each) is the listing of the run in which
\* the same answers arrive in the order of the focus areas and variations.
C36_ListingOrderFree ==
  (DrInvoked /\ tpc = "returned") =>
    DrListing(loc.allResults) = DrListing(AllResultsInOrder)

\* Which pages are listed does not depend on the order
ListedPagesOrderFree ==
  (DrInvoked /\ tpc = "returned") =>
    {normalizeUrl(x[1]) : x \in {DrListing(loc.allResults)[k] : k \in 1..Len(DrListing(loc.allResults))}}
      = {normalizeUrl(x[1]) : x \in {DrListing(AllResultsInOrder)[k] : k \in 1..Len(DrListing(AllResultsInOrder))}}

\* Every request of the run was answered, no timer has rejected a race, and
\* the listing is not the one of the run that completes in order
ListingDiffersWithoutFaults ==
  /\ DrInvoked /\ tpc = "returned"
  /\ Faults = 0
  /\ \A s \in DOMAIN req : req[s].st = "ok"
  /\ DrListing(loc.allResults) # DrListing(AllResultsInOrder)

====
